---- MODULE Spec2Model ----
(***************************************************************************)
(* A model of the chatbot-assistant ingestion and retrieval engine:        *)
(*   - app/services/denylist.py, chunker.py, repo_manager.py, indexer.py   *)
(*   - app/routers/tasks.py, webhooks.py, chat.py                          *)
(*   - app/db/session.py (unit of work) and app/db/models.py (constraints) *)
(*                                                                         *)
(* Text is modelled at character level: a string is a sequence of          *)
(* one-character strings, so that formatting, suffix matching and the      *)
(* regular expressions of the source are computed, not assumed.            *)
(***************************************************************************)
EXTENDS Integers, Sequences, FiniteSets, TLC

(***************************************************************************)
(* Character-level string helpers (Python str operations).                 *)
(***************************************************************************)

\* str.isspace() for the characters that occur inside one line
IsSpace(c) == c \in {" ", "\t", "\r"}

\* s.startswith(p)
StartsWith(s, p) ==
    /\ Len(p) <= Len(s)
    /\ \A i \in 1..Len(p) : s[i] = p[i]

\* s.endswith(p)
EndsWith(s, p) ==
    /\ Len(p) <= Len(s)
    /\ \A i \in 1..Len(p) : s[Len(s) - Len(p) + i] = p[i]

\* needle in hay
Contains(hay, needle) ==
    \E k \in 0..(Len(hay) - Len(needle)) :
        \A i \in 1..Len(needle) : hay[k + i] = needle[i]

\* s.rfind(c) + 1 (0 when c does not occur)
LastIndexOf(s, c) ==
    IF \E i \in 1..Len(s) : s[i] = c
    THEN CHOOSE i \in 1..Len(s) : s[i] = c /\ \A j \in (i+1)..Len(s) : s[j] # c
    ELSE 0

\* s[k:] with k the 1-based index of the first character kept
Tail_(s, k) == SubSeq(s, k, Len(s))

\* str.lower() on the letters the model uses
Lower(c) ==
    CASE c = "M" -> "m"
      [] c = "D" -> "d"
      [] c = "P" -> "p"
      [] c = "Y" -> "y"
      [] OTHER -> c

LowerStr(s) == [i \in 1..Len(s) |-> Lower(s[i])]

\* str(n) for n >= 0 (decimal digits)
Digit(d) == CASE d = 0 -> "0" [] d = 1 -> "1" [] d = 2 -> "2" [] d = 3 -> "3"
              [] d = 4 -> "4" [] d = 5 -> "5" [] d = 6 -> "6" [] d = 7 -> "7"
              [] d = 8 -> "8" [] OTHER -> "9"

RECURSIVE IntToStr(_)
IntToStr(n) == IF n < 10 THEN <<Digit(n)>> ELSE IntToStr(n \div 10) \o <<Digit(n % 10)>>

(***************************************************************************)
(* Denylist (app/services/denylist.py)                                     *)
(***************************************************************************)

DENYLIST_DIRS == {
    <<"n","o","d","e","_","m","o","d","u","l","e","s","/">>,
    <<"d","i","s","t","/">>,
    <<"b","u","i","l","d","/">>,
    <<".","g","i","t","/">>,
    <<"v","e","n","d","o","r","/">>,
    <<"_","_","p","y","c","a","c","h","e","_","_","/">>,
    <<".","t","o","x","/">>,
    <<".","v","e","n","v","/">>,
    <<".","m","y","p","y","_","c","a","c","h","e","/">> }

\* each glob is "*" followed by the suffix held here
DENYLIST_EXTENSIONS == {
    <<".","l","o","c","k">>,
    <<".","p","n","g">>,
    <<".","j","p","g">>,
    <<".","j","p","e","g">>,
    <<".","g","i","f">>,
    <<".","s","v","g">>,
    <<".","i","c","o">>,
    <<".","p","d","f">>,
    <<".","w","o","f","f">>,
    <<".","w","o","f","f","2">>,
    <<".","t","t","f">>,
    <<".","e","o","t">>,
    <<".","m","p","3">>,
    <<".","m","p","4">>,
    <<".","z","i","p">>,
    <<".","t","a","r",".","g","z">>,
    <<".","e","x","e">>,
    <<".","d","l","l">>,
    <<".","s","o">>,
    <<".","d","y","l","i","b">>,
    <<".","m","i","n",".","j","s">>,
    <<".","m","i","n",".","c","s","s">>,
    <<".","m","a","p">> }

DENYLIST_FILES == {
    <<"p","a","c","k","a","g","e","-","l","o","c","k",".","j","s","o","n">>,
    <<"y","a","r","n",".","l","o","c","k">>,
    <<"p","n","p","m","-","l","o","c","k",".","y","a","m","l">>,
    <<"C","a","r","g","o",".","l","o","c","k">>,
    <<"p","o","e","t","r","y",".","l","o","c","k">>,
    <<"P","i","p","f","i","l","e",".","l","o","c","k">>,
    <<"g","o",".","s","u","m">>,
    <<"c","o","m","p","o","s","e","r",".","l","o","c","k">> }

MAX_FILE_SIZE_BYTES == 500000

\* size_bytes = None
NoSize == -1

\* path.rsplit("/", maxsplit=1)[-1]
Basename(path) == Tail_(path, LastIndexOf(path, "/") + 1)

is_denied(path, size_bytes) ==
    LET normalised == <<"/">> \o path
        filename   == Basename(path)
    IN  \/ \E d \in DENYLIST_DIRS : Contains(normalised, <<"/">> \o d)
        \/ \E e \in DENYLIST_EXTENSIONS : EndsWith(filename, e)
        \/ filename \in DENYLIST_FILES
        \/ (size_bytes # NoSize /\ size_bytes > MAX_FILE_SIZE_BYTES)

(***************************************************************************)
(* Text.  A text is the list of its lines (str.split("\n") / "\n".join),   *)
(* followed by `pad` further filler characters on its last line; the       *)
(* filler is a letter (not whitespace, not "#").  The pad lets a text be   *)
(* longer than MAX_FILE_SIZE_BYTES without spelling its characters out.    *)
(***************************************************************************)

Text(ls, p) == [lines |-> ls, pad |-> p]

\* len(lines) after content.split("\n")
NumLines(t) == Len(t.lines)

\* len(content.encode("utf-8")); every modelled character is ASCII
RECURSIVE SumLens(_, _)
SumLens(ls, i) == IF i > Len(ls) THEN 0 ELSE Len(ls[i]) + SumLens(ls, i + 1)

ByteLen(t) == SumLens(t.lines, 1) + (Len(t.lines) - 1) + t.pad

\* "\n".join(lines[a:b]) for 0-indexed half-open [a, b)
Slice(t, a, b) ==
    Text(SubSeq(t.lines, a + 1, b), IF b = Len(t.lines) THEN t.pad ELSE 0)

\* not s.strip()
IsBlank(t) ==
    /\ t.pad = 0
    /\ \A i \in 1..Len(t.lines) : \A j \in 1..Len(t.lines[i]) : IsSpace(t.lines[i][j])

(***************************************************************************)
(* Chunker (app/services/chunker.py)                                       *)
(***************************************************************************)

\* _HEADING_PATTERN.match(line):  ^#{1,6}\s+
IsHeading(line) ==
    \E k \in 1..6 :
        /\ Len(line) > k
        /\ \A j \in 1..k : line[j] = "#"
        /\ IsSpace(line[k + 1])

\* the for-loop of chunk_markdown, from index i (0-indexed) on
RECURSIVE MarkdownLoop(_, _, _, _)
MarkdownLoop(t, i, current_start, chunks) ==
    IF i >= NumLines(t)
    THEN LET chunk_text == Slice(t, current_start, NumLines(t))
         IN  IF ~IsBlank(chunk_text)
             THEN Append(chunks, <<current_start + 1, NumLines(t), chunk_text>>)
             ELSE chunks
    ELSE IF IsHeading(t.lines[i + 1]) /\ i > 0
         THEN LET chunk_text == Slice(t, current_start, i)
              IN  MarkdownLoop(t, i + 1, i,
                      IF ~IsBlank(chunk_text)
                      THEN Append(chunks, <<current_start + 1, i, chunk_text>>)
                      ELSE chunks)
         ELSE MarkdownLoop(t, i + 1, current_start, chunks)

chunk_markdown(content) ==
    IF IsBlank(content) THEN <<>> ELSE MarkdownLoop(content, 0, 0, <<>>)

\* \w of the re module, over the characters the model uses
WordChars ==
    {"a","b","c","d","e","f","g","h","i","j","k","l","m","n","o","p","q","r","s",
     "t","u","v","w","x","y","z","A","B","C","D","M","P","Y","0","1","2","3","4",
     "5","6","7","8","9","_"}

\* number of leading characters of s that are in set cs
RECURSIVE Span(_, _, _)
Span(s, k, cs) == IF k <= Len(s) /\ s[k] \in cs THEN 1 + Span(s, k + 1, cs) ELSE 0

KW_class     == <<"c","l","a","s","s"," ">>
KW_def       == <<"d","e","f"," ">>
KW_async_def == <<"a","s","y","n","c"," ","d","e","f"," ">>
KW_function  == <<"f","u","n","c","t","i","o","n"," ">>
KW_const     == <<"c","o","n","s","t"," ">>
KW_eq        == <<" ","="," ">>
KW_async     == <<"a","s","y","n","c"," ">>
KW_export    == <<"e","x","p","o","r","t"," ">>
KW_default   == <<"d","e","f","a","u","l","t"," ">>
KW_interface == <<"i","n","t","e","r","f","a","c","e"," ">>
KW_type      == <<"t","y","p","e"," ">>
KW_func      == <<"f","u","n","c"," ">>
KW_struct    == <<" ","s","t","r","u","c","t">>
KW_fn        == <<"f","n"," ">>
KW_pub_fn    == <<"p","u","b"," ","f","n"," ">>
KW_impl      == <<"i","m","p","l"," ">>
KW_rstruct   == <<"s","t","r","u","c","t"," ">>
KW_enum      == <<"e","n","u","m"," ">>
KW_trait     == <<"t","r","a","i","t"," ">>
KW_public    == <<"p","u","b","l","i","c">>
KW_private   == <<"p","r","i","v","a","t","e">>
KW_protected == <<"p","r","o","t","e","c","t","e","d">>
KW_static    == <<"s","t","a","t","i","c">>

EXT_py   == <<".","p","y">>
EXT_js   == <<".","j","s">>
EXT_ts   == <<".","t","s">>
EXT_tsx  == <<".","t","s","x">>
EXT_go   == <<".","g","o">>
EXT_rs   == <<".","r","s">>
EXT_java == <<".","j","a","v","a">>
EXT_md   == <<".","m","d">>
EXT_mdx  == <<".","m","d","x">>

\* const \w+ = (?:async )?\(
MatchConstArrow(line) ==
    /\ StartsWith(line, KW_const)
    /\ LET n    == Span(line, Len(KW_const) + 1, WordChars)
           rest == Tail_(line, Len(KW_const) + n + 1)
       IN  /\ n >= 1
           /\ StartsWith(rest, KW_eq)
           /\ LET r2 == Tail_(rest, Len(KW_eq) + 1)
              IN  \/ StartsWith(r2, <<"(">>)
                  \/ StartsWith(r2, KW_async \o <<"(">>)

\* export (?:default )?(?:function|class)
MatchExport(line) ==
    /\ StartsWith(line, KW_export)
    /\ LET r  == Tail_(line, Len(KW_export) + 1)
           r2 == IF StartsWith(r, KW_default) THEN Tail_(r, Len(KW_default) + 1) ELSE r
           fn == SubSeq(KW_function, 1, 8)
           cl == SubSeq(KW_class, 1, 5)
       IN  \/ StartsWith(r, fn) \/ StartsWith(r, cl)
           \/ StartsWith(r2, fn) \/ StartsWith(r2, cl)

\* type \w+ struct
MatchGoStruct(line) ==
    /\ StartsWith(line, KW_type)
    /\ LET n == Span(line, Len(KW_type) + 1, WordChars)
       IN  n >= 1 /\ StartsWith(Tail_(line, Len(KW_type) + n + 1), KW_struct)

MatchJs(line) ==
    \/ StartsWith(line, KW_function)
    \/ StartsWith(line, KW_class)
    \/ MatchConstArrow(line)
    \/ MatchExport(line)

\* BOUNDARY_PATTERNS[ext] matched at the start of one line, for the patterns
\* that cannot match across a line break (every one but ".java")
LineBoundary(ext, line) ==
    CASE ext = EXT_py ->
           StartsWith(line, KW_class) \/ StartsWith(line, KW_def)
             \/ StartsWith(line, KW_async_def)
      [] ext = EXT_js -> MatchJs(line)
      [] ext \in {EXT_ts, EXT_tsx} ->
           MatchJs(line) \/ StartsWith(line, KW_interface) \/ StartsWith(line, KW_type)
      [] ext = EXT_go -> StartsWith(line, KW_func) \/ MatchGoStruct(line)
      [] ext = EXT_rs ->
           \/ StartsWith(line, KW_fn) \/ StartsWith(line, KW_pub_fn)
           \/ StartsWith(line, KW_impl) \/ StartsWith(line, KW_rstruct)
           \/ StartsWith(line, KW_enum) \/ StartsWith(line, KW_trait)
      [] OTHER -> FALSE

\* the characters of the content, lines joined by "\n"
RECURSIVE Flatten(_, _)
Flatten(ls, i) ==
    IF i > Len(ls) THEN <<>>
    ELSE IF i = Len(ls) THEN ls[i]
    ELSE ls[i] \o <<"\n">> \o Flatten(ls, i + 1)

ReSpace == {" ", "\t", "\r", "\n"}

\* The ".java" pattern tried at 1-based position p of the flat content:
\*   \s*(?:public|private|protected)?\s*(?:static\s+)?(?:class |interface )
\* The position after the match, or 0 when it does not match at p.
JavaMatchEnd(flat, p) ==
    LET p1  == p + Span(flat, p, ReSpace)
        t1  == Tail_(flat, p1)
        p2  == IF StartsWith(t1, KW_public) THEN p1 + Len(KW_public)
               ELSE IF StartsWith(t1, KW_private) THEN p1 + Len(KW_private)
               ELSE IF StartsWith(t1, KW_protected) THEN p1 + Len(KW_protected)
               ELSE p1
        p3  == p2 + Span(flat, p2, ReSpace)
        t3  == Tail_(flat, p3)
        ws  == Span(flat, p3 + Len(KW_static), ReSpace)
        p4  == IF StartsWith(t3, KW_static) /\ ws >= 1
               THEN p3 + Len(KW_static) + ws ELSE p3
        t4  == Tail_(flat, p4)
    IN  IF StartsWith(t4, KW_class) THEN p4 + Len(KW_class)
        ELSE IF StartsWith(t4, KW_interface) THEN p4 + Len(KW_interface)
        ELSE 0

\* content[:pos].count("\n") for the 1-based position p
LineOfPos(flat, p) == Cardinality({i \in 1..(p - 1) : flat[i] = "\n"})

\* pattern.finditer(content) for ".java": non-overlapping matches, left to right
RECURSIVE JavaFindIter(_, _, _)
JavaFindIter(flat, p, acc) ==
    IF p > Len(flat) THEN acc
    ELSE LET e == IF p = 1 \/ flat[p - 1] = "\n" THEN JavaMatchEnd(flat, p) ELSE 0
         IN  IF e > 0
             THEN JavaFindIter(flat, e, acc \cup {LineOfPos(flat, p)})
             ELSE JavaFindIter(flat, p + 1, acc)

\* the set of boundary_indices (0-indexed line numbers) of chunk_code
BoundaryIndices(content, ext) ==
    IF ext = EXT_java
    THEN JavaFindIter(Flatten(content.lines, 1), 1, {})
    ELSE {i \in 0..(NumLines(content) - 1) : LineBoundary(ext, content.lines[i + 1])}

\* sorted(set(boundary_indices))
RECURSIVE SortedSeq(_)
SortedSeq(S) ==
    IF S = {} THEN <<>>
    ELSE LET m == CHOOSE x \in S : \A y \in S : x <= y
         IN  <<m>> \o SortedSeq(S \ {m})

Min(a, b) == IF a <= b THEN a ELSE b

\* _fallback_chunks: the loop for i in range(0, total, max_lines)
RECURSIVE FallbackLoop(_, _, _, _)
FallbackLoop(t, i, max_lines, chunks) ==
    IF i >= NumLines(t) THEN chunks
    ELSE LET end == Min(i + max_lines, NumLines(t))
         IN  FallbackLoop(t, i + max_lines, max_lines,
                          Append(chunks, <<i + 1, end, Slice(t, i, end)>>))

_fallback_chunks(t, max_lines) == FallbackLoop(t, 0, max_lines, <<>>)

\* _split_at_boundaries: 0-indexed half-open intervals <<start, end>>
\* a split that leaves out the lines before the first boundary
DropsPreamble(boundary_indices, total_lines) ==
    LET boundaries == SortedSeq(boundary_indices)
    IN  [i \in 1..Len(boundaries) |->
           <<boundaries[i],
             IF i + 1 <= Len(boundaries) THEN boundaries[i + 1] ELSE total_lines>>]

_split_at_boundaries(boundary_indices, total_lines) ==
    LET boundaries == SortedSeq(boundary_indices)
        head == IF boundaries[1] > 0 THEN << <<0, boundaries[1]>> >> ELSE <<>>
        rest == [i \in 1..Len(boundaries) |->
                   <<boundaries[i],
                     IF i + 1 <= Len(boundaries) THEN boundaries[i + 1] ELSE total_lines>>]
    IN  head \o rest

\* phase 1, inner while: merge forward while below min_lines; the pair <<i, end>> reached
RECURSIVE MergeForward(_, _, _, _, _)
MergeForward(chunks, i, start, end, min_lines) ==
    IF end - start < min_lines /\ i + 1 <= Len(chunks)
    THEN MergeForward(chunks, i + 1, start, chunks[i + 1][2], min_lines)
    ELSE <<i, end>>

\* phase 1, outer while (i is the 1-based index into chunks)
RECURSIVE MergeLoop(_, _, _, _)
MergeLoop(chunks, i, min_lines, merged) ==
    IF i > Len(chunks) THEN merged
    ELSE LET r == MergeForward(chunks, i, chunks[i][1], chunks[i][2], min_lines)
         IN  MergeLoop(chunks, r[1] + 1, min_lines,
                       Append(merged, <<chunks[i][1], r[2]>>))

\* phase 2, inner for: sub_start in range(start, end, max_lines)
RECURSIVE SubSplit(_, _, _, _)
SubSplit(sub_start, end, max_lines, acc) ==
    IF sub_start >= end THEN acc
    ELSE SubSplit(sub_start + max_lines, end, max_lines,
                  Append(acc, <<sub_start, Min(sub_start + max_lines, end)>>))

\* phase 2, outer for
RECURSIVE SplitLoop(_, _, _, _)
SplitLoop(merged, i, max_lines, result) ==
    IF i > Len(merged) THEN result
    ELSE LET start == merged[i][1]
             end   == merged[i][2]
         IN  SplitLoop(merged, i + 1, max_lines,
                       IF end - start <= max_lines
                       THEN Append(result, <<start, end>>)
                       ELSE SubSplit(start, end, max_lines, result))

\* phase 1 alone: merged chunks are not sub-split
MergeOnly(chunks, min_lines, max_lines, total_lines) ==
    MergeLoop(chunks, 1, min_lines, <<>>)

_merge_and_split(chunks, min_lines, max_lines, total_lines) ==
    SplitLoop(MergeLoop(chunks, 1, min_lines, <<>>), 1, max_lines, <<>>)

chunk_code(content, ext, min_lines, max_lines) ==
    LET total == NumLines(content)
    IN  IF total = 0 THEN <<>>
        ELSE IF total <= max_lines THEN << <<1, total, content>> >>
        ELSE LET boundary_indices == BoundaryIndices(content, ext)
             IN  IF boundary_indices = {}
                 THEN _fallback_chunks(content, max_lines)
                 ELSE LET raw_chunks == _split_at_boundaries(boundary_indices, total)
                          merged == _merge_and_split(raw_chunks, min_lines, max_lines, total)
                      IN  [k \in 1..Len(merged) |->
                             <<merged[k][1] + 1, merged[k][2],
                               Slice(content, merged[k][1], merged[k][2])>>]

\* os.path.splitext(path)[1]
SplitExt(path) ==
    LET sepIndex == LastIndexOf(path, "/")
        dotIndex == LastIndexOf(path, ".")
    IN  IF dotIndex > sepIndex
           /\ \E k \in (sepIndex + 1)..(dotIndex - 1) : path[k] # "."
        THEN Tail_(path, dotIndex)
        ELSE <<>>

DEFAULT_MIN_LINES == 200
DEFAULT_MAX_LINES == 400

chunk_file_with(content, path, min_lines, max_lines) ==
    LET ext_lower == LowerStr(SplitExt(path))
    IN  IF ext_lower \in {EXT_md, EXT_mdx}
        THEN chunk_markdown(content)
        ELSE chunk_code(content, ext_lower, min_lines, max_lines)

\* chunk_file(content, path) with the default min_lines and max_lines
chunk_file(content, path) ==
    chunk_file_with(content, path, DEFAULT_MIN_LINES, DEFAULT_MAX_LINES)

(***************************************************************************)
(* Knowledge-base store (app/db/models.py) and unit of work                *)
(* (app/db/session.py).                                                    *)
(*                                                                         *)
(* db is the committed content of the three tables.  A unit of work sees   *)
(* the committed rows plus its own uncommitted writes (PostgreSQL READ     *)
(* COMMITTED, the engine's default isolation level); its uncommitted       *)
(* writes are held in tx and its row locks make a conflicting statement of *)
(* another unit of work wait.  updated_at is not modelled.                 *)
(***************************************************************************)

VARIABLES
    db,         \* committed rows: [repos, files, chunks]
    seq,        \* id sequences of kb_files and kb_chunks (never rolled back)
    task,       \* per worker: the task request being handled and its locals
    tx,         \* per worker: the uncommitted writes of its unit of work
    delivered,  \* number of task deliveries so far
    last,       \* history: the task that completed last
    prev        \* history: the task that completed before it

storeVars == <<db, seq, task, tx, delivered, last, prev>>

VARIABLES
    chat,       \* the /chat request in progress, and its response
    llm_calls,  \* number of calls of the LLM client so far
    ret,        \* the retrieve_chunks call in progress, and what it returned
    hook,       \* the webhook request in progress, and its response
    queue,      \* the task queue: the jobs in the order they were enqueued
    admin,      \* the /admin/sync-repo or /admin/backfill request in progress
    chunked     \* the chunk_file call made last, and what it returned

chatVars == <<chat, llm_calls, ret>>
hookVars == <<hook, queue>>
adminVars == <<admin>>
chunkVars == <<chunked>>
vars == <<storeVars, chatVars, hookVars, adminVars, chunkVars>>

Workers == {"w1", "w2"}

\* the number of task deliveries explored: one at a time, and overlapping
MaxTasks == 3
MaxConcTasks == 3

\* hashlib.sha256(content.encode("utf-8")).hexdigest(); collision-free
sha256(content) == [digest_of |-> content]

NoContent == Text(<<>>, 0)
NoDigest  == sha256(NoContent)
NoRow     == [id |-> 0, repo_id |-> 0, path |-> <<>>, commit_sha |-> <<>>,
              sha256 |-> NoDigest]
EmptyDb   == [repos |-> {}, files |-> {}, chunks |-> {}]
EmptyTx   == [repos |-> {}, files |-> {}, delChunks |-> {}]

RepoRow(id, owner, name) == [id |-> id, owner |-> owner, name |-> name]

FileRow(id, repo_id, path, commit_sha, digest) ==
    [id |-> id, repo_id |-> repo_id, path |-> path, commit_sha |-> commit_sha,
     sha256 |-> digest]

ChunkRow(id, repo_id, file_id, path, commit_sha, c) ==
    [id |-> id, repo_id |-> repo_id, file_id |-> file_id, path |-> path,
     commit_sha |-> commit_sha, start_line |-> c[1], end_line |-> c[2],
     content |-> c[3]]

\* uq_repos_owner_name and the primary key of repos
RepoConflict(rows, r) ==
    \E x \in rows : x.id = r.id \/ (x.owner = r.owner /\ x.name = r.name)

\* uq_kb_files_repo_path
FileConflict(rows, f) ==
    \E x \in rows : x.repo_id = f.repo_id /\ x.path = f.path

IdleTask ==
    [pc |-> "idle", kind |-> "none", repo_id |-> 0, owner |-> <<>>, name |-> <<>>,
     path |-> <<>>, commit_sha |-> <<>>, actual_repo_id |-> 0,
     content |-> NoContent, fetched |-> FALSE, existing |-> NoRow,
     kb_file_id |-> 0, targets |-> {}, chunks |-> <<>>, called_chunker |-> FALSE,
     outcome |-> "none", pre |-> EmptyDb]

NoTask ==
    [kind |-> "none", repo_id |-> 0, owner |-> <<>>, name |-> <<>>, path |-> <<>>,
     commit_sha |-> <<>>, actual_repo_id |-> 0, content |-> NoContent,
     fetched |-> FALSE, existing |-> NoRow, chunks |-> <<>>,
     called_chunker |-> FALSE, outcome |-> "none", status |-> 0,
     raised |-> "none", dirty |-> FALSE, pre |-> EmptyDb]

StoreInit ==
    /\ db = EmptyDb
    /\ seq = [file |-> 1, chunk |-> 1]
    /\ task = [w \in Workers |-> IdleTask]
    /\ tx = [w \in Workers |-> EmptyTx]
    /\ delivered = 0
    /\ last = NoTask
    /\ prev = NoTask

(***************************************************************************)
(* Repo row management (app/services/repo_manager.py)                      *)
(***************************************************************************)

NoRepo == RepoRow(0, <<>>, <<>>)

\* the two SELECTs of get_or_create_repo: by primary key, then by (owner, name)
LookupRepo(rows, repo_id, owner, name) ==
    IF \E r \in rows : r.id = repo_id
    THEN CHOOSE r \in rows : r.id = repo_id
    ELSE IF \E r \in rows : r.owner = owner /\ r.name = name
         THEN CHOOSE r \in rows : r.owner = owner /\ r.name = name
         ELSE NoRepo

(***************************************************************************)
(* Task handlers (app/routers/tasks.py) running index_file and delete_file *)
(* (app/services/indexer.py) inside the unit of work of get_db_session.    *)
(* Every await is a step; CPU-only work belongs to the step before it.     *)
(***************************************************************************)

\* the rows a statement of worker w sees
VisibleRepos(w) == db.repos \cup tx[w].repos
VisibleFiles(w) == db.files \cup tx[w].files

\* what the histories keep of a completed task: its request, and for a task that
\* returned a result the locals the result rests on; for one that raised,
\* whether its unit of work had written anything
Finished(t, outcome, status, raised, dirty) ==
    IF outcome = "error"
    THEN [NoTask EXCEPT !.kind = t.kind, !.outcome = outcome, !.status = status,
                        !.raised = raised, !.dirty = dirty, !.pre = t.pre]
    ELSE [kind |-> t.kind, repo_id |-> t.repo_id, owner |-> t.owner,
          name |-> t.name, path |-> t.path, commit_sha |-> t.commit_sha,
          actual_repo_id |-> t.actual_repo_id, content |-> t.content,
          fetched |-> t.fetched, existing |-> t.existing, chunks |-> t.chunks,
          called_chunker |-> t.called_chunker, outcome |-> outcome,
          status |-> status, raised |-> raised, dirty |-> FALSE, pre |-> t.pre]

\* the unit of work ends: the response is sent and the session released
Complete(w, outcome, status, raised, newdb) ==
    /\ db' = newdb
    /\ last' = Finished(task[w], outcome, status, raised, tx[w] # EmptyTx)
    /\ prev' = [last EXCEPT !.pre = EmptyDb, !.existing = NoRow, !.chunks = <<>>]
    /\ task' = [task EXCEPT ![w] = IdleTask]
    /\ tx' = [tx EXCEPT ![w] = EmptyTx]

\* the committed rows with the uncommitted writes of worker w applied
WithTx(w) ==
    [repos  |-> db.repos \cup tx[w].repos,
     files  |-> db.files \cup tx[w].files,
     chunks |-> {c \in db.chunks : c.id \notin tx[w].delChunks}]

\* a rollback that lets the unit's uncommitted writes through
KeepsWrites(w) == WithTx(w)

\* session.rollback(): the committed rows after the unit of work is rolled back
RolledBack(w) == db

\* get_db_session, except-branch: rollback, the exception propagates.
\* An exception raised by the handler is answered 500 (HTTPException of tasks.py);
\* one raised by the commit reaches the client as 500 or after the handler's 200
\* was sent, depending on when the framework runs the dependency's exit code.
Abort(w, raised) ==
    /\ \E st \in (IF raised = "handler" THEN {500} ELSE {200, 500}) :
           Complete(w, "error", st, raised, RolledBack(w))
    /\ UNCHANGED <<seq, delivered>>

\* POST /tasks/index-file is delivered
StartIndex(w, job, limit) ==
    /\ task[w].pc = "idle"
    /\ delivered < limit
    /\ delivered' = delivered + 1
    /\ task' = [task EXCEPT ![w] =
                  [IdleTask EXCEPT !.pc = "repo_lookup", !.kind = "index",
                                   !.repo_id = job.repo_id, !.owner = job.owner,
                                   !.name = job.name, !.path = job.path,
                                   !.commit_sha = job.commit_sha, !.pre = db]]
    /\ UNCHANGED <<db, seq, tx, last, prev>>
    /\ UNCHANGED <<chatVars, hookVars, adminVars, chunkVars>>

\* POST /tasks/delete-file is delivered
StartDelete(w, job, limit) ==
    /\ task[w].pc = "idle"
    /\ delivered < limit
    /\ delivered' = delivered + 1
    /\ task' = [task EXCEPT ![w] =
                  [IdleTask EXCEPT !.pc = "select_file", !.kind = "delete",
                                   !.repo_id = job.repo_id, !.owner = job.owner,
                                   !.name = job.name, !.path = job.path,
                                   !.actual_repo_id = job.repo_id, !.pre = db]]
    /\ UNCHANGED <<db, seq, tx, last, prev>>
    /\ UNCHANGED <<chatVars, hookVars, adminVars, chunkVars>>

\* an index_file that has no path denylist check
NeverDenied(t, actual) == [t EXCEPT !.actual_repo_id = actual, !.pc = "fetch"]

\* an index_file that keeps the repo_id it was called with
UsesGivenId(t, actual) ==
    IF is_denied(t.path, NoSize)
    THEN [t EXCEPT !.actual_repo_id = t.repo_id, !.outcome = "skipped:denylist",
                   !.pc = "commit"]
    ELSE [t EXCEPT !.actual_repo_id = t.repo_id, !.pc = "fetch"]

\* index_file after get_or_create_repo returned: the path denylist check
AfterRepo(t, actual) ==
    IF is_denied(t.path, NoSize)
    THEN [t EXCEPT !.actual_repo_id = actual, !.outcome = "skipped:denylist",
                   !.pc = "commit"]
    ELSE [t EXCEPT !.actual_repo_id = actual, !.pc = "fetch"]

\* get_or_create_repo: the two lookups
RepoLookup(w) ==
    /\ task[w].pc = "repo_lookup"
    /\ LET t == task[w]
           r == LookupRepo(VisibleRepos(w), t.repo_id, t.owner, t.name)
       IN  task' = [task EXCEPT ![w] =
                      IF r # NoRepo THEN AfterRepo(t, r.id)
                      ELSE [t EXCEPT !.pc = "repo_insert"]]
    /\ UNCHANGED <<db, seq, tx, delivered, last, prev>>
    /\ UNCHANGED <<chatVars, hookVars, adminVars, chunkVars>>

\* get_or_create_repo: session.add(repo); flush.  The INSERT waits while another
\* unit of work holds an uncommitted conflicting row, and fails on a committed one.
RepoInsert(w) ==
    /\ task[w].pc = "repo_insert"
    /\ LET t == task[w]
           r == RepoRow(t.repo_id, t.owner, t.name)
       IN  /\ \A v \in Workers \ {w} : ~RepoConflict(tx[v].repos, r)
           /\ IF RepoConflict(db.repos, r)
              THEN Abort(w, "handler")
              ELSE /\ tx' = [tx EXCEPT ![w].repos = @ \cup {r}]
                   /\ task' = [task EXCEPT ![w] = AfterRepo(t, r.id)]
                   /\ UNCHANGED <<db, seq, delivered, last, prev>>
    /\ UNCHANGED <<chatVars, hookVars, adminVars, chunkVars>>

\* fetch_file_content, then the size check and the content hash.
\* result is the text the code host returns, NoContent for a 404.
Fetch(w, result) ==
    /\ task[w].pc = "fetch"
    /\ LET t == task[w]
       IN  task' = [task EXCEPT ![w] =
              IF result = NoContent
              THEN [t EXCEPT !.outcome = "skipped:not_found", !.pc = "commit"]
              ELSE IF is_denied(t.path, ByteLen(result))
              THEN [t EXCEPT !.content = result, !.fetched = TRUE,
                             !.outcome = "skipped:size", !.pc = "commit"]
              ELSE [t EXCEPT !.content = result, !.fetched = TRUE,
                             !.pc = "select_file"]]
    /\ UNCHANGED <<db, seq, tx, delivered, last, prev>>
    /\ UNCHANGED <<chatVars, hookVars, adminVars, chunkVars>>

\* a comparison that never finds the content unchanged
NeverUnchanged(existing, digest) == FALSE

\* existing_file.sha256 == content_hash
IsUnchanged(existing, digest) == existing.sha256 = digest

\* select(KBFile).where(repo_id == ..., path == ...) and the branch taken on it
SelectFile(w) ==
    /\ task[w].pc = "select_file"
    /\ LET t    == task[w]
           rows == {f \in VisibleFiles(w) :
                       f.repo_id = t.actual_repo_id /\ f.path = t.path}
           row  == IF rows = {} THEN NoRow ELSE CHOOSE f \in rows : TRUE
       IN  task' = [task EXCEPT ![w] =
              IF t.kind = "delete"
              THEN IF row = NoRow
                   THEN [t EXCEPT !.outcome = "not_found", !.pc = "commit"]
                   ELSE [t EXCEPT !.existing = row, !.pc = "delete_chunks"]
              ELSE IF row = NoRow
                   THEN [t EXCEPT !.pc = "insert_file"]
                   ELSE IF IsUnchanged(row, sha256(t.content))
                        THEN [t EXCEPT !.existing = row, !.outcome = "unchanged",
                                       !.pc = "commit"]
                        ELSE [t EXCEPT !.existing = row, !.pc = "delete_chunks"]]
    /\ UNCHANGED <<db, seq, tx, delivered, last, prev>>
    /\ UNCHANGED <<chatVars, hookVars, adminVars, chunkVars>>

\* a DELETE that matches no row
DeleteNothing(chunks, file_id) == {}

\* delete(KBChunk).where(KBChunk.file_id == existing_file.id): the rows the
\* statement's snapshot holds
DeleteTargets(chunks, file_id) == {c.id : c \in {x \in chunks : x.file_id = file_id}}

\* the DELETE statement starts: it takes its snapshot
DeleteChunksStart(w) ==
    /\ task[w].pc = "delete_chunks"
    /\ task' = [task EXCEPT ![w].targets = DeleteTargets(db.chunks, task[w].existing.id),
                            ![w].pc = "delete_wait"]
    /\ UNCHANGED <<db, seq, tx, delivered, last, prev>>
    /\ UNCHANGED <<chatVars, hookVars, adminVars, chunkVars>>

\* the DELETE statement ends.  It waits for the row locks of another unit of work;
\* a row whose deletion was committed meanwhile is skipped.  index_file then
\* updates the file object and chunks the content; delete_file marks the file
\* for deletion.
DeleteChunksFinish(w) ==
    /\ task[w].pc = "delete_wait"
    /\ \A v \in Workers \ {w} : tx[v].delChunks \cap task[w].targets = {}
    /\ LET t == task[w]
       IN  /\ tx' = [tx EXCEPT ![w].delChunks =
                        @ \cup (t.targets \cap {c.id : c \in db.chunks})]
           /\ task' = [task EXCEPT ![w] =
                 IF t.kind = "delete"
                 THEN [t EXCEPT !.outcome = "deleted", !.pc = "commit"]
                 ELSE [t EXCEPT !.kb_file_id = t.existing.id,
                                !.chunks = chunk_file(t.content, t.path),
                                !.called_chunker = TRUE,
                                !.outcome = "indexed", !.pc = "commit"]]
    /\ UNCHANGED <<db, seq, delivered, last, prev>>
    /\ UNCHANGED <<chatVars, hookVars, adminVars, chunkVars>>

\* session.add(kb_file); flush.  The INSERT takes an id from the sequence, waits
\* while another unit of work holds an uncommitted row of the same (repo_id, path)
\* and fails on a committed one.  Then the content is chunked.
InsertFile(w) ==
    /\ task[w].pc = "insert_file"
    /\ LET t == task[w]
           f == FileRow(seq.file, t.actual_repo_id, t.path, t.commit_sha,
                        sha256(t.content))
       IN  /\ \A v \in Workers \ {w} : ~FileConflict(tx[v].files, f)
           /\ seq' = [seq EXCEPT !.file = @ + 1]
           /\ IF FileConflict(db.files, f)
              THEN /\ \E st \in {500} : Complete(w, "error", st, "handler", RolledBack(w))
                   /\ UNCHANGED delivered
              ELSE /\ tx' = [tx EXCEPT ![w].files = @ \cup {f}]
                   /\ task' = [task EXCEPT ![w] =
                         [t EXCEPT !.kb_file_id = f.id,
                                   !.chunks = chunk_file(t.content, t.path),
                                   !.called_chunker = TRUE,
                                   !.outcome = "indexed", !.pc = "commit"]]
                   /\ UNCHANGED <<db, delivered, last, prev>>
    /\ UNCHANGED <<chatVars, hookVars, adminVars, chunkVars>>

\* the UPDATE of kb_files the flush emits for the loaded file object: only the
\* attributes whose value differs from the loaded one are written
FileNeedsUpdate(t) ==
    /\ t.existing # NoRow
    /\ t.outcome \in {"unchanged", "indexed"}
    /\ \/ t.commit_sha # t.existing.commit_sha
       \/ (t.outcome = "indexed" /\ sha256(t.content) # t.existing.sha256)

\* an UPDATE that writes nothing
KeepFile(cur, t) == cur

UpdatedFile(cur, t) ==
    [cur EXCEPT !.commit_sha = IF t.commit_sha # t.existing.commit_sha
                               THEN t.commit_sha ELSE @,
                !.sha256 = IF t.outcome = "indexed"
                              /\ sha256(t.content) # t.existing.sha256
                           THEN sha256(t.content) ELSE @]

\* the KBChunk objects added by index_file, with ids drawn from the sequence
NewChunkRows(t, first_id) ==
    {ChunkRow(first_id + k - 1, t.actual_repo_id, t.kb_file_id, t.path,
              t.commit_sha, t.chunks[k]) : k \in 1..Len(t.chunks)}

\* session.delete(existing_file) flushed: the row goes, and ON DELETE CASCADE
\* removes the chunks that reference it
KeepFiles(files, file_id) == files
FilesAfterDelete(files, file_id) == {f \in files : f.id # file_id}
ChunksAfterDelete(chunks, file_id) == {c \in chunks : c.file_id # file_id}

\* the UPDATE of the flush matches no row (StaleDataError), or an inserted chunk
\* references no kb_files row (foreign key)
FlushFails(w) ==
    LET t == task[w]
        base == WithTx(w)
    IN  \/ FileNeedsUpdate(t) /\ ~\E f \in base.files : f.id = t.existing.id
        \/ t.outcome = "indexed" /\ Len(t.chunks) > 0
             /\ ~\E f \in base.files : f.id = t.kb_file_id

\* the rows after flush and COMMIT
Committed(w) ==
    LET t == task[w]
        base == WithTx(w)
        files1 == IF FileNeedsUpdate(t)
                  THEN {IF f.id = t.existing.id THEN UpdatedFile(f, t) ELSE f :
                           f \in base.files}
                  ELSE base.files
    IN  IF t.outcome = "deleted"
        THEN [base EXCEPT !.files = FilesAfterDelete(base.files, t.existing.id),
                          !.chunks = ChunksAfterDelete(base.chunks, t.existing.id)]
        ELSE IF t.outcome = "indexed"
        THEN [base EXCEPT !.files = files1,
                          !.chunks = @ \cup NewChunkRows(t, seq.chunk)]
        ELSE [base EXCEPT !.files = files1]

\* get_db_session after the handler returned: session.commit() (flush, COMMIT)
Commit(w) ==
    /\ task[w].pc = "commit"
    /\ IF FlushFails(w)
       THEN Abort(w, "commit")
       ELSE /\ Complete(w, task[w].outcome, 200, "none", Committed(w))
            /\ seq' = [seq EXCEPT !.chunk =
                          @ + (IF task[w].outcome = "indexed"
                               THEN Len(task[w].chunks) ELSE 0)]
            /\ UNCHANGED delivered
    /\ UNCHANGED <<chatVars, hookVars, adminVars, chunkVars>>

\* a store or code-host error at the current step (connection lost, non-2xx
\* response other than 404): the exception propagates, the unit is rolled back
Fail(w) ==
    /\ task[w].pc # "idle"
    /\ Abort(w, IF task[w].pc = "commit" THEN "commit" ELSE "handler")
    /\ UNCHANGED <<chatVars, hookVars, adminVars, chunkVars>>

(***************************************************************************)
(* The values the task specifications draw their inputs from.              *)
(***************************************************************************)

O_o   == <<"o">>
N_r   == <<"r">>
N_s   == <<"s">>
P_md  == <<"a", ".", "m", "d">>
P_png == <<"c", ".", "p", "n", "g">>
SHA_1 == <<"c", "1">>
SHA_2 == <<"c", "2">>

\* "# a\n# b": two markdown chunks
T_two   == Text(<< <<"#", " ", "a">>, <<"#", " ", "b">> >>, 0)
\* "x\n# b\n# c": three markdown chunks
T_three == Text(<< <<"x">>, <<"#", " ", "b">>, <<"#", " ", "c">> >>, 0)
\* "x" followed by MAX_FILE_SIZE_BYTES filler characters: one byte too large
T_big   == Text(<< <<"x">> >>, MAX_FILE_SIZE_BYTES)

Contents == {T_two, T_three, T_big}

Idents ==
    {[repo_id |-> 1, owner |-> O_o, name |-> N_r],
     [repo_id |-> 2, owner |-> O_o, name |-> N_r],
     [repo_id |-> 2, owner |-> O_o, name |-> N_s]}

IndexJob(ident, path, commit_sha) ==
    [repo_id |-> ident.repo_id, owner |-> ident.owner, name |-> ident.name,
     path |-> path, commit_sha |-> commit_sha]

IndexJobs ==
    {IndexJob(i, P_md, c) : i \in Idents, c \in {SHA_1, SHA_2}}
      \cup {IndexJob([repo_id |-> 1, owner |-> O_o, name |-> N_r], P_png, SHA_1)}

DeleteJobs ==
    {[repo_id |-> i.repo_id, owner |-> i.owner, name |-> i.name, path |-> P_md] :
        i \in Idents}

\* one step of the task handled by worker w; results are the texts the code host
\* may return
TaskStep(w, results) ==
    \/ RepoLookup(w)
    \/ RepoInsert(w)
    \/ \E r \in results : Fetch(w, r)
    \/ SelectFile(w)
    \/ DeleteChunksStart(w)
    \/ DeleteChunksFinish(w)
    \/ InsertFile(w)
    \/ Commit(w)
    \/ Fail(w)

\* tasks delivered one at a time
StoreNext ==
    \/ \E job \in IndexJobs : StartIndex("w1", job, MaxTasks)
    \/ \E job \in DeleteJobs : StartDelete("w1", job, MaxTasks)
    \/ TaskStep("w1", Contents \cup {NoContent})


\* the jobs of one repository and one path, delivered to two workers at once
ConcIdents == {i \in Idents : i.name = N_r}
ConcIndexJobs ==
    {IndexJob(i, P_md, SHA_1) : i \in ConcIdents}
      \cup {IndexJob([repo_id |-> 1, owner |-> O_o, name |-> N_r], P_md, SHA_2)}
ConcDeleteJobs == {j \in DeleteJobs : j.repo_id = 1 /\ j.name = N_r}

StoreConcNext ==
    \E w \in Workers :
        \/ \E job \in ConcIndexJobs : StartIndex(w, job, MaxConcTasks)
        \/ \E job \in ConcDeleteJobs : StartDelete(w, job, MaxConcTasks)
        \/ TaskStep(w, {T_two, T_three})


\* index_file jobs only, delivered to two workers at once
IndexConcNext ==
    \E w \in Workers :
        \/ \E job \in ConcIndexJobs : StartIndex(w, job, MaxConcTasks)
        \/ TaskStep(w, {T_two, T_three})


(***************************************************************************)
(* POST /chat (app/routers/chat.py)                                        *)
(***************************************************************************)

Range(s) == {s[k] : k \in 1..Len(s)}

\* the number of LLM calls, retrieved chunks and LLM citations explored
MaxLLMCalls == 2
MaxRetrieved == 3
MaxCitations == 2

\* defaults of compute_confidence; scores are counted in hundredths
MIN_CHUNKS == 3
HIGH_SCORE_THRESHOLD == 10

RetrievedChunk(id, owner, name, path, commit_sha, start_line, end_line, score) ==
    [id |-> id, repo_owner |-> owner, repo_name |-> name, path |-> path,
     commit_sha |-> commit_sha, start_line |-> start_line, end_line |-> end_line,
     score |-> score]

\* f"{c.repo_owner}/{c.repo_name}/{c.path}@{c.commit_sha}:{c.start_line}-{c.end_line}"
Source(c) ==
    c.repo_owner \o <<"/">> \o c.repo_name \o <<"/">> \o c.path \o <<"@">>
      \o c.commit_sha \o <<":">> \o IntToStr(c.start_line) \o <<"-">>
      \o IntToStr(c.end_line)

\* a confidence that looks at the number of chunks only
CountOnly(chunks) == IF Len(chunks) >= MIN_CHUNKS THEN "high" ELSE "low"

compute_confidence(chunks) ==
    IF Len(chunks) = 0 THEN "low"
    ELSE LET has_enough_chunks == Len(chunks) >= MIN_CHUNKS
             has_high_score == chunks[1].score >= HIGH_SCORE_THRESHOLD
         IN  IF has_enough_chunks /\ has_high_score THEN "high"
             ELSE IF has_enough_chunks \/ has_high_score THEN "medium"
             ELSE "low"

Citation(source, relevance) == [source |-> source, relevance |-> relevance]

\* a verification that lets every claimed citation through
AcceptAll(llm_citations, chunks) == llm_citations

\* a verification that lets no claimed citation through
DropAll(llm_citations, chunks) == <<>>

verify_citations(llm_citations, chunks) ==
    LET valid_sources == {Source(c) : c \in Range(chunks)}
        Valid(cit) == cit.source \in valid_sources
    IN  SelectSeq(llm_citations, Valid)

ChatResponse(status, answer, citations, confidence) ==
    [status |-> status, answer |-> answer, citations |-> citations,
     confidence |-> confidence]

NoResponse == ChatResponse(0, "", <<>>, "none")
NoLLM == [result |-> "none", answer |-> "", citations |-> <<>>,
          needs_clarification |-> FALSE]

IdleChat == [pc |-> "idle", chunks |-> <<>>, confidence |-> "none", llm |-> NoLLM,
             response |-> NoResponse]

(***************************************************************************)
(* Staged retrieval (app/services/retrieval.py).  Each search is one       *)
(* awaited SQL statement; its rows are an input.  ret.calls is the list of *)
(* the searches retrieve_chunks has invoked so far, in order, and ret.fts, *)
(* ret.fts_or and ret.trigram keep the rows each search returned.          *)
(***************************************************************************)
\* defaults of retrieve_chunks
DEFAULT_MIN_FTS_RESULTS == 3
DEFAULT_MAX_CHUNKS == 12

NoCall == [pc |-> "idle", min_fts_results |-> 0, max_chunks |-> 0, calls |-> <<>>,
           returned |-> {}, fts |-> <<>>, fts_or |-> <<>>, trigram |-> <<>>,
           results |-> <<>>]

\* retrieve_chunks is entered: search_fts is awaited
retrieve_chunks(min_fts_results, max_chunks) ==
    [NoCall EXCEPT !.pc = "search_fts", !.min_fts_results = min_fts_results,
                   !.max_chunks = max_chunks, !.calls = <<"search_fts">>]

\* a second stage that runs whatever the first one found
AlwaysOr(results) == TRUE

\* if len(results) == 0
NeedsOr(results) == Len(results) = 0

\* a third stage that leaves a list one short of min_fts_results alone
BelowMinLess(results, min_fts_results) == Len(results) < min_fts_results - 1

\* if len(results) < min_fts_results
NeedsTrigram(results, min_fts_results) == Len(results) < min_fts_results

\* a supplement that appends every trigram row
AppendAll(results, trigram_results, k, max_chunks) ==
    results \o trigram_results

\* for chunk in trigram_results: append it unless its id was seen or the
\* list is full (seen_ids is the set of the ids of results throughout)
RECURSIVE AppendNew(_, _, _, _)
AppendNew(results, trigram_results, k, max_chunks) ==
    IF k > Len(trigram_results) THEN results
    ELSE LET chunk == trigram_results[k]
             seen_ids == {c.id : c \in Range(results)}
         IN  AppendNew(IF chunk.id \notin seen_ids /\ Len(results) < max_chunks
                       THEN Append(results, chunk)
                       ELSE results,
                       trigram_results, k + 1, max_chunks)

\* results[:max_chunks]
Truncated(results, max_chunks) == SubSeq(results, 1, Min(Len(results), max_chunks))

\* the stage-1/2 list is complete: supplement it or return it
AfterFts(r, results) ==
    IF NeedsTrigram(results, r.min_fts_results)
    THEN [r EXCEPT !.pc = "search_trigram", !.results = results,
                   !.calls = Append(@, "search_trigram")]
    ELSE [r EXCEPT !.pc = "returned", !.results = Truncated(results, r.max_chunks)]

\* search_fts returned rows
FtsReturned(r, rows) ==
    LET r1 == [r EXCEPT !.fts = rows, !.returned = @ \cup {"search_fts"}]
    IN  IF NeedsOr(rows)
        THEN [r1 EXCEPT !.pc = "search_fts_or", !.results = rows,
                        !.calls = Append(@, "search_fts_or")]
        ELSE AfterFts(r1, rows)

\* search_fts_or returned rows
FtsOrReturned(r, rows) ==
    AfterFts([r EXCEPT !.fts_or = rows, !.returned = @ \cup {"search_fts_or"}], rows)

\* search_trigram returned rows: merge, truncate, return
TrigramReturned(r, rows) ==
    [r EXCEPT !.pc = "returned", !.trigram = rows,
              !.returned = @ \cup {"search_trigram"},
              !.results = Truncated(AppendNew(r.results, rows, 1, r.max_chunks),
                                    r.max_chunks)]

ChatInit ==
    /\ chat = IdleChat
    /\ llm_calls = 0
    /\ ret = NoCall

\* a /chat request arrives: retrieve_chunks(session, body.question) is awaited
ChatStart ==
    /\ chat.pc \in {"idle", "done"}
    /\ llm_calls < MaxLLMCalls
    /\ chat' = [IdleChat EXCEPT !.pc = "retrieve"]
    /\ ret' = retrieve_chunks(DEFAULT_MIN_FTS_RESULTS, DEFAULT_MAX_CHUNKS)
    /\ UNCHANGED <<llm_calls, storeVars, hookVars, adminVars, chunkVars>>

\* retrieve_chunks returned to the /chat handler: the empty branch answers
\* at once; otherwise the confidence is computed, the context built and the
\* LLM client awaited
ChatRetrieved(c, r) ==
    IF c.pc # "retrieve" \/ r.pc # "returned" THEN c
    ELSE IF Len(r.results) = 0
    THEN [c EXCEPT
            !.pc = "done",
            !.response = ChatResponse(200,
                "I don't know. Could you provide more details about what you're looking for?",
                <<>>, "low")]
    ELSE [c EXCEPT !.pc = "generate", !.chunks = r.results,
                   !.confidence = compute_confidence(r.results)]

\* retrieve_chunks is called on its own, with the given parameters
RetrieveStart(min_fts_results, max_chunks) ==
    /\ chat.pc = "idle"
    /\ ret.pc \in {"idle", "returned", "failed"}
    /\ ret' = retrieve_chunks(min_fts_results, max_chunks)
    /\ UNCHANGED <<chat, llm_calls, storeVars, hookVars, adminVars, chunkVars>>

\* the three searches return (each is called with limit=max_chunks); when
\* retrieve_chunks returns with them, its caller goes on
SearchFts(rows) ==
    /\ ret.pc = "search_fts"
    /\ Len(rows) <= ret.max_chunks
    /\ ret' = FtsReturned(ret, rows)
    /\ chat' = ChatRetrieved(chat, ret')
    /\ UNCHANGED <<llm_calls, storeVars, hookVars, adminVars, chunkVars>>

SearchFtsOr(rows) ==
    /\ ret.pc = "search_fts_or"
    /\ Len(rows) <= ret.max_chunks
    /\ ret' = FtsOrReturned(ret, rows)
    /\ chat' = ChatRetrieved(chat, ret')
    /\ UNCHANGED <<llm_calls, storeVars, hookVars, adminVars, chunkVars>>

SearchTrigram(rows) ==
    /\ ret.pc = "search_trigram"
    /\ Len(rows) <= ret.max_chunks
    /\ ret' = TrigramReturned(ret, rows)
    /\ chat' = ChatRetrieved(chat, ret')
    /\ UNCHANGED <<llm_calls, storeVars, hookVars, adminVars, chunkVars>>

\* a search raised: the exception leaves retrieve_chunks and, in /chat, the
\* handler, whose answer is then 500
ChatRetrieveFails ==
    /\ ret.pc \in {"search_fts", "search_fts_or", "search_trigram"}
    /\ ret' = [ret EXCEPT !.pc = "failed"]
    /\ chat' = IF chat.pc = "retrieve"
               THEN [chat EXCEPT !.pc = "done",
                                 !.response = ChatResponse(500, "", <<>>, "none")]
               ELSE chat
    /\ UNCHANGED <<llm_calls, storeVars, hookVars, adminVars, chunkVars>>

\* a handler that takes every LLM outcome for a parsed response
NeverFailed(llm) == FALSE

\* the LLM call raised or its output did not parse
LLMFailed(llm) == llm.result # "ok"

\* a response that always carries the retrieval's confidence
KeepsConfidence(llm, verified) == FALSE

\* needs_clarification, or no verified citation
LowConfidence(llm, verified) == llm.needs_clarification \/ Len(verified) = 0

\* llm_client.generate returned or raised, and the rest of the handler:
\* parse, verify the citations, choose the branch of the response
ChatGenerated(llm) ==
    /\ chat.pc = "generate"
    /\ llm_calls' = llm_calls + 1
    /\ LET verified == verify_citations(llm.citations, chat.chunks)
       IN  chat' = [chat EXCEPT
              !.pc = "done",
              !.llm = llm,
              !.response =
                 IF LLMFailed(llm)
                 THEN ChatResponse(200,
                        "I'm sorry, I encountered an error processing your question. Please try again.",
                        <<>>, "low")
                 ELSE IF LowConfidence(llm, verified)
                 THEN ChatResponse(200, llm.answer, verified, "low")
                 ELSE ChatResponse(200, llm.answer, verified, chat.confidence)]
    /\ UNCHANGED <<ret, storeVars, hookVars, adminVars, chunkVars>>

\* the chunks retrieval may return, and the citations the LLM may claim
P_py == <<"b", ".", "p", "y">>
K_1 == RetrievedChunk(1, O_o, N_r, P_md, SHA_1, 1, 2, 20)
K_2 == RetrievedChunk(2, O_o, N_r, P_md, SHA_1, 3, 12, 10)
K_3 == RetrievedChunk(3, O_o, N_s, P_py, SHA_2, 1, 1, 5)
Chunks == {K_1, K_2, K_3}

RECURSIVE SeqsUpTo(_, _)
SeqsUpTo(S, n) ==
    IF n = 0 THEN {<<>>}
    ELSE LET shorter == SeqsUpTo(S, n - 1)
         IN  shorter \cup {Append(q, x) : q \in shorter, x \in S}

Distinct(q) == \A i, j \in 1..Len(q) : q[i] = q[j] => i = j

Retrievals == {q \in SeqsUpTo(Chunks, MaxRetrieved) : Distinct(q)}

\* the store after a.md of o/r and b.py of o/s were indexed
T_doc  == Text(<< <<"#", " ", "a">>, <<"x">>, <<"#", " ", "b">>, <<"x">>, <<"x">>,
                  <<"x">>, <<"x">>, <<"x">>, <<"x">>, <<"x">>, <<"x">>, <<"x">> >>, 0)
T_code == Text(<< <<"x">> >>, 0)

IndexedDb ==
    LET doc  == chunk_file(T_doc, P_md)
        code == chunk_file(T_code, P_py)
    IN  [repos  |-> {RepoRow(1, O_o, N_r), RepoRow(2, O_o, N_s)},
         files  |-> {FileRow(1, 1, P_md, SHA_1, sha256(T_doc)),
                     FileRow(2, 2, P_py, SHA_2, sha256(T_code))},
         chunks |-> {ChunkRow(k, 1, 1, P_md, SHA_1, doc[k]) : k \in 1..Len(doc)}
                      \cup {ChunkRow(Len(doc) + k, 2, 2, P_py, SHA_2, code[k]) :
                                k \in 1..Len(code)}]

IndexedStoreInit ==
    /\ db \in {EmptyDb, IndexedDb}
    /\ seq = [file |-> Cardinality(db.files) + 1, chunk |-> Cardinality(db.chunks) + 1]
    /\ task = [w \in Workers |-> IdleTask]
    /\ tx = [w \in Workers |-> EmptyTx]
    /\ delivered = 0
    /\ last = NoTask
    /\ prev = NoTask

\* ts_rank_cd of a chunk under the question, and the similarity of its path
FtsScore  == (1 :> 20) @@ (2 :> 10) @@ (3 :> 5)
TrgmScore == (1 :> 30) @@ (2 :> 30) @@ (3 :> 20)

\* SELECT ... FROM kb_chunks JOIN repos ON kb_chunks.repo_id = repos.id
Joined(score) ==
    {RetrievedChunk(c.id, r.owner, r.name, c.path, c.commit_sha, c.start_line,
                    c.end_line, score[c.id]) :
        <<c, r>> \in {x \in db.chunks \X db.repos : x[1].repo_id = x[2].id}}

\* WHERE picks some of the joined rows, ORDER BY score DESC puts them in order
Ranked(q) == \A i \in 1..Len(q) - 1 : q[i].score >= q[i + 1].score
SearchRows(score) ==
    {q \in SeqsUpTo(Joined(score), Cardinality(db.chunks)) : Distinct(q) /\ Ranked(q)}

\* (min_fts_results, max_chunks) of the calls of retrieve_chunks explored
RetrieveParams ==
    {<<DEFAULT_MIN_FTS_RESULTS, DEFAULT_MAX_CHUNKS>>, <<2, 2>>, <<1, 2>>, <<3, 2>>}

\* sources of retrieved chunks, a wrong line range, a bare path
ClaimedSources ==
    {Source(c) : c \in Chunks} \cup {Source([K_1 EXCEPT !.end_line = 12]), P_md}

LLMResults ==
    {[result |-> "ok", answer |-> "answer", citations |-> cs, needs_clarification |-> n] :
        cs \in SeqsUpTo({Citation(src, "relevant") : src \in ClaimedSources},
                        MaxCitations),
        n \in BOOLEAN}
      \cup {[NoLLM EXCEPT !.result = r] : r \in {"raised", "unparsable"}}

ChatNext ==
    \/ ChatStart
    \/ \E rows \in SearchRows(FtsScore) : SearchFts(rows)
    \/ \E rows \in SearchRows(FtsScore) : SearchFtsOr(rows)
    \/ \E rows \in SearchRows(TrgmScore) : SearchTrigram(rows)
    \/ ChatRetrieveFails
    \/ \E llm \in LLMResults : ChatGenerated(llm)

RetrieveNext ==
    \/ \E p \in RetrieveParams : RetrieveStart(p[1], p[2])
    \/ \E rows \in SearchRows(FtsScore) : SearchFts(rows)
    \/ \E rows \in SearchRows(FtsScore) : SearchFtsOr(rows)
    \/ \E rows \in SearchRows(TrgmScore) : SearchTrigram(rows)
    \/ ChatRetrieveFails

(***************************************************************************)
(* POST /webhooks/github (app/routers/webhooks.py) and the task queue      *)
(* (app/services/task_queue.py)                                            *)
(***************************************************************************)

\* the number of webhook requests and of commits per push explored
MaxEvents == 2
MaxCommits == 2

\* Python None where a string may stand: no string of characters equals it
None == <<"None">>

\* settings.github_webhook_secret, and a key that is not it
SECRET == <<"k">>
OTHER_KEY == <<"z">>

\* hmac.new(key, msg=body, digestmod=hashlib.sha256).hexdigest(); collision-free
hmac_sha256(key, body) == [mac_of |-> <<key, body>>]

\* "sha256=" + hexdigest, as a header value
SignatureHeader(prefix, mac) == [prefix |-> prefix, mac |-> mac]

\* a request without the X-Hub-Signature-256 header, and a header value with
\* a character outside ASCII in it (a byte above 0x7f, decoded as latin-1)
NoHeader == [absent |-> TRUE]
NonAsciiHeader == SignatureHeader("sha256=", [non_ascii |-> TRUE])
IsAscii(header) == header # NonAsciiHeader

\* hmac.compare_digest(a, b) of two str: TypeError unless both are ASCII
compare_digest(a, b) ==
    IF ~IsAscii(a) \/ ~IsAscii(b) THEN "TypeError"
    ELSE IF a = b THEN "True" ELSE "False"

\* repo.owner.login or repo.owner.name or ""
OwnerOf(owner) ==
    IF owner.login # None /\ owner.login # <<>> THEN owner.login
    ELSE IF owner.name # None /\ owner.name # <<>> THEN owner.name
    ELSE <<>>

IndexFilePayload(owner, name, repo_id, path, commit_sha) ==
    [url |-> "/tasks/index-file", repo_owner |-> owner, repo_name |-> name,
     repo_id |-> repo_id, path |-> path, commit_sha |-> commit_sha]

DeleteFilePayload(owner, name, repo_id, path) ==
    [url |-> "/tasks/delete-file", repo_owner |-> owner, repo_name |-> name,
     repo_id |-> repo_id, path |-> path]

\* a loop body that enqueues the added paths only
AddedOnly(payload, commit) ==
    [k \in 1..Len(commit.added) |->
        IndexFilePayload(OwnerOf(payload.repository.owner), payload.repository.name,
                         payload.repository.id, commit.added[k], payload.after)]

\* the jobs of one commit in the order of the loop body: added + modified, removed
CommitJobs(payload, commit) ==
    LET owner == OwnerOf(payload.repository.owner)
        repo  == payload.repository
        index == commit.added \o commit.modified
    IN  [k \in 1..Len(index) |->
            IndexFilePayload(owner, repo.name, repo.id, index[k], payload.after)]
          \o [k \in 1..Len(commit.removed) |->
                DeleteFilePayload(owner, repo.name, repo.id, commit.removed[k])]

RECURSIVE PushJobs(_, _)
PushJobs(payload, k) ==
    IF k > Len(payload.commits) THEN <<>>
    ELSE CommitJobs(payload, payload.commits[k]) \o PushJobs(payload, k + 1)

\* a check that skips no push
SkipsNothing(payload) == FALSE

\* if payload.deleted
SkipsPush(payload) == payload.deleted

Malformed == [malformed |-> TRUE]
NoCount == -1
HookResponse(status, tasks_enqueued) ==
    [status |-> status, tasks_enqueued |-> tasks_enqueued]

IdleHook == [pc |-> "idle", received |-> 0, body |-> Malformed, header |-> NoHeader,
             payload |-> Malformed, jobs |-> <<>>,
             tasks_enqueued |-> 0, queue0 |-> <<>>,
             response |-> HookResponse(0, NoCount)]

HookInit ==
    /\ hook = IdleHook
    /\ queue = <<>>

\* the handler between two awaits of enqueue: the response once the loops end
AfterEnqueue(h) ==
    IF h.tasks_enqueued = Len(h.jobs)
    THEN [h EXCEPT !.pc = "done", !.response = HookResponse(202, h.tasks_enqueued)]
    ELSE [h EXCEPT !.pc = "enqueue"]

\* a request arrives: verify_github_signature, then github_webhook up to its
\* first await.  received counts the requests so far, queue0 keeps the queue as
\* the request found it.  A request without the required header is answered
\* 422 before the body of the dependency runs; an exception of the dependency
\* or of the handler is answered 500.
HookReceive(body, header) ==
    /\ hook.pc \in {"idle", "done"}
    /\ hook.received < MaxEvents
    /\ LET expected == SignatureHeader("sha256=", hmac_sha256(SECRET, body))
           h0 == [IdleHook EXCEPT !.received = hook.received + 1, !.body = body,
                                  !.header = header, !.queue0 = queue]
       IN  hook' =
             IF header = NoHeader
             THEN [h0 EXCEPT !.pc = "done", !.response = HookResponse(422, NoCount)]
             ELSE IF compare_digest(expected, header) = "TypeError"
             THEN [h0 EXCEPT !.pc = "done", !.response = HookResponse(500, NoCount)]
             ELSE IF compare_digest(expected, header) = "False"
             THEN [h0 EXCEPT !.pc = "done", !.response = HookResponse(401, NoCount)]
             ELSE IF body = Malformed
             THEN [h0 EXCEPT !.pc = "done", !.response = HookResponse(500, NoCount)]
             ELSE IF SkipsPush(body)
             THEN [h0 EXCEPT !.pc = "done", !.payload = body,
                             !.response = HookResponse(202, 0)]
             ELSE AfterEnqueue([h0 EXCEPT !.payload = body,
                                          !.jobs = PushJobs(body, 1)])
    /\ UNCHANGED <<queue, storeVars, chatVars, adminVars, chunkVars>>

\* await task_queue.enqueue(...) returned; tasks_enqueued += 1
HookEnqueue ==
    /\ hook.pc = "enqueue"
    /\ queue' = Append(queue, hook.jobs[hook.tasks_enqueued + 1])
    /\ hook' = AfterEnqueue([hook EXCEPT !.tasks_enqueued = @ + 1])
    /\ UNCHANGED <<storeVars, chatVars, adminVars, chunkVars>>

\* await task_queue.enqueue(...) raised: the exception leaves the handler
HookEnqueueFails ==
    /\ hook.pc = "enqueue"
    /\ hook' = [hook EXCEPT !.pc = "done", !.response = HookResponse(500, NoCount)]
    /\ UNCHANGED <<queue, storeVars, chatVars, adminVars, chunkVars>>

\* the push events a code host may send
Owners == {[login |-> O_o, name |-> None], [login |-> None, name |-> O_o]}

Commit_(added, modified, removed) ==
    [added |-> added, modified |-> modified, removed |-> removed]

Commits ==
    {Commit_(<<P_md>>, <<P_py>>, <<>>),
     Commit_(<<P_md>>, <<>>, <<P_md>>)}

Pushes ==
    {[repository |-> [id |-> 1, name |-> N_r, owner |-> o], after |-> SHA_1,
      deleted |-> d, commits |-> cs] :
        o \in Owners, d \in BOOLEAN, cs \in SeqsUpTo(Commits, MaxCommits)}

Headers(body) ==
    {SignatureHeader("sha256=", hmac_sha256(SECRET, body)),
     SignatureHeader("sha256=", hmac_sha256(OTHER_KEY, body)),
     SignatureHeader("", hmac_sha256(SECRET, body)),
     NonAsciiHeader, NoHeader}

HookNext ==
    \/ \E body \in Pushes \cup {Malformed} : \E header \in Headers(body) :
          HookReceive(body, header)
    \/ HookEnqueue
    \/ HookEnqueueFails

(***************************************************************************)
(* chunk_file called on its own (app/services/chunker.py), on every text   *)
(* of up to MaxChunkLines lines over a small alphabet of lines.            *)
(***************************************************************************)
MaxChunkLines == 5

P_txt == <<"n", ".", "t", "x", "t">>

\* an empty line, a plain line, a markdown heading, a Python definition
ChunkLines == {<<>>, <<"x">>, <<"#", " ", "a">>, <<"d", "e", "f", " ", "f">>}

ChunkTexts ==
    {Text(ls, 0) : ls \in {q \in SeqsUpTo(ChunkLines, MaxChunkLines) : Len(q) > 0}}

\* (min_lines, max_lines): the defaults, and sizes a short text exceeds
ChunkSizes ==
    {<<DEFAULT_MIN_LINES, DEFAULT_MAX_LINES>>, <<1, 1>>, <<1, 2>>, <<2, 2>>, <<2, 3>>}

NotChunked ==
    [called |-> FALSE, content |-> NoContent, path |-> <<>>, min_lines |-> 0,
     max_lines |-> 0, chunks |-> <<>>]

ChunkInit == chunked = NotChunked

ChunkFile(content, path, min_lines, max_lines) ==
    /\ ~chunked.called
    /\ chunked' = [called |-> TRUE, content |-> content, path |-> path,
                   min_lines |-> min_lines, max_lines |-> max_lines,
                   chunks |-> chunk_file_with(content, path, min_lines, max_lines)]
    /\ UNCHANGED <<storeVars, chatVars, hookVars, adminVars>>

\* chunk_file is applied once per behaviour: the texts it can still be given
ToChunk == IF chunked.called THEN {} ELSE ChunkTexts

ChunkNext ==
    \E content \in ToChunk, path \in {P_md, P_py, P_txt}, size \in ChunkSizes :
        ChunkFile(content, path, size[1], size[2])

(***************************************************************************)
(* POST /admin/sync-repo and POST /admin/backfill (app/routers/admin.py).  *)
(* Every await is a step: get_repo_metadata, list_repo_files, and each     *)
(* enqueue.  admin.log is a history: per repository of the request, what   *)
(* the code host returned, how many jobs were placed and what was raised.  *)
(***************************************************************************)
\* the number of admin requests explored
MaxAdminCalls == 1

\* str(exc) of an exception of the code host or of the queue
ERR == <<"5", "0", "3">>

SyncRepoResponse(repo_id, files_found, tasks_enqueued, files_skipped) ==
    [status |-> "accepted", repo_id |-> repo_id, files_found |-> files_found,
     tasks_enqueued |-> tasks_enqueued, files_skipped_denylist |-> files_skipped]

BackfillRepoResult(owner, repo, status, found, enqueued, skipped, error) ==
    [owner |-> owner, repo |-> repo, status |-> status, files_found |-> found,
     tasks_enqueued |-> enqueued, files_skipped_denylist |-> skipped,
     error |-> error]

BackfillResponse(results, total) ==
    [results |-> results, total_tasks_enqueued |-> total]

AdminResponse(http, body) == [http |-> http, body |-> body]
NoBody == [none |-> TRUE]

IdleAdmin ==
    [pc |-> "idle", received |-> 0, kind |-> "none", repos |-> <<>>, k |-> 0,
     repo_id |-> 0, files |-> <<>>, i |-> 0, tasks_enqueued |-> 0,
     files_skipped |-> 0, total_enqueued |-> 0, results |-> <<>>,
     placed |-> 0, log |-> <<>>, queue0 |-> <<>>,
     response |-> AdminResponse(0, NoBody)]

AdminInit == admin = IdleAdmin

\* a loop that skips no path
SkipsNoFile(path) == FALSE

\* if is_denied(path)
SkipsFile(path) == is_denied(path, NoSize)

\* the loop over files up to its next enqueue, or to its end
RECURSIVE SkipDenied(_)
SkipDenied(a) ==
    IF a.i > Len(a.files) THEN a
    ELSE IF SkipsFile(a.files[a.i])
    THEN SkipDenied([a EXCEPT !.i = @ + 1, !.files_skipped = @ + 1])
    ELSE a

LogEntry(a, raised) ==
    [repo_id |-> a.repo_id, files |-> a.files, placed |-> a.placed, raised |-> raised]

\* backfill: the next item of request.repos, or the response after the last
NextRepo(a) ==
    IF a.k = Len(a.repos)
    THEN [a EXCEPT !.pc = "done",
                   !.response = AdminResponse(200,
                                   BackfillResponse(a.results, a.total_enqueued))]
    ELSE [a EXCEPT !.k = @ + 1, !.pc = "meta", !.repo_id = 0, !.files = <<>>,
                   !.i = 0, !.placed = 0]

\* the handler between two awaits of enqueue, and after the loop over files
AfterFiles(a) ==
    LET item == a.repos[a.k]
    IN  IF a.i <= Len(a.files) THEN [a EXCEPT !.pc = "enqueue"]
        ELSE IF a.kind = "sync"
        THEN [a EXCEPT !.pc = "done", !.log = Append(@, LogEntry(a, None)),
                       !.response = AdminResponse(200,
                           SyncRepoResponse(a.repo_id, Len(a.files),
                                            a.tasks_enqueued, a.files_skipped))]
        ELSE NextRepo([a EXCEPT
                 !.total_enqueued = @ + a.tasks_enqueued,
                 !.log = Append(@, LogEntry(a, None)),
                 !.results = Append(@,
                     BackfillRepoResult(item.owner, item.repo, "accepted",
                                        Len(a.files), a.tasks_enqueued,
                                        a.files_skipped, None))])

\* a backfill whose first failing repository ends the request
StopsAtFirstError(a, err) ==
    [a EXCEPT !.pc = "done", !.log = Append(@, LogEntry(a, err)),
              !.response = AdminResponse(500, NoBody)]

\* an await raised: sync_repo lets the exception out (500); backfill records
\* the repository as failed and goes on with the next one
AdminRaised(a, err) ==
    LET item == a.repos[a.k]
    IN  IF a.kind = "sync"
        THEN [a EXCEPT !.pc = "done", !.log = Append(@, LogEntry(a, err)),
                       !.response = AdminResponse(500, NoBody)]
        ELSE NextRepo([a EXCEPT
                 !.log = Append(@, LogEntry(a, err)),
                 !.results = Append(@,
                     BackfillRepoResult(item.owner, item.repo, "error", 0, 0, 0, err))])

\* the id the code host has for a repository
HostId(item) == IF item.repo = N_r THEN 1 ELSE 2

\* POST /admin/sync-repo arrives: get_repo_metadata is awaited
SyncStart(item) ==
    /\ admin.pc \in {"idle", "done"}
    /\ admin.received < MaxAdminCalls
    /\ admin' = [IdleAdmin EXCEPT !.pc = "meta", !.received = admin.received + 1,
                                  !.kind = "sync", !.repos = <<item>>, !.k = 1,
                                  !.queue0 = queue]
    /\ UNCHANGED <<queue, hook, storeVars, chatVars, chunkVars>>

\* POST /admin/backfill arrives: get_repo_metadata of the first item is awaited
BackfillStart(repos) ==
    /\ admin.pc \in {"idle", "done"}
    /\ admin.received < MaxAdminCalls
    /\ admin' = [IdleAdmin EXCEPT !.pc = "meta", !.received = admin.received + 1,
                                  !.kind = "backfill", !.repos = repos, !.k = 1,
                                  !.queue0 = queue]
    /\ UNCHANGED <<queue, hook, storeVars, chatVars, chunkVars>>

\* get_repo_metadata returned: list_repo_files is awaited
AdminMeta(repo_id) ==
    /\ admin.pc = "meta"
    /\ repo_id = HostId(admin.repos[admin.k])
    /\ admin' = [admin EXCEPT !.pc = "files", !.repo_id = repo_id]
    /\ UNCHANGED <<queue, hook, storeVars, chatVars, chunkVars>>

\* list_repo_files returned: the counters are reset and the loop runs up to
\* its first enqueue
AdminFiles(files) ==
    /\ admin.pc = "files"
    /\ admin' = AfterFiles(SkipDenied([admin EXCEPT !.files = files, !.i = 1,
                                                    !.tasks_enqueued = 0,
                                                    !.files_skipped = 0]))
    /\ UNCHANGED <<queue, hook, storeVars, chatVars, chunkVars>>

\* await task_queue.enqueue(...) returned; tasks_enqueued += 1
AdminEnqueue ==
    /\ admin.pc = "enqueue"
    /\ LET item == admin.repos[admin.k]
       IN  queue' = Append(queue,
                      IndexFilePayload(item.owner, item.repo, admin.repo_id,
                                       admin.files[admin.i], item.ref))
    /\ admin' = AfterFiles(SkipDenied([admin EXCEPT !.i = @ + 1,
                                                    !.tasks_enqueued = @ + 1,
                                                    !.placed = @ + 1]))
    /\ UNCHANGED <<hook, storeVars, chatVars, chunkVars>>

\* get_repo_metadata, list_repo_files or enqueue raised
AdminFails(err) ==
    /\ admin.pc \in {"meta", "files", "enqueue"}
    /\ admin' = AdminRaised(admin, err)
    /\ UNCHANGED <<queue, hook, storeVars, chatVars, chunkVars>>

\* the requests, and what the code host returns for them
RepoItem(owner, repo, ref) == [owner |-> owner, repo |-> repo, ref |-> ref]
RepoItems == {RepoItem(O_o, N_r, SHA_1), RepoItem(O_o, N_s, SHA_2)}
BackfillRequests ==
    {<<RepoItem(O_o, N_r, SHA_1)>>,
     <<RepoItem(O_o, N_r, SHA_1), RepoItem(O_o, N_s, SHA_2)>>,
     <<RepoItem(O_o, N_r, SHA_1), RepoItem(O_o, N_s, SHA_2),
       RepoItem(O_o, N_r, SHA_2)>>}
FileLists ==
    {<<>>, <<P_png, P_md>>, <<P_md, P_png, P_py>>}

AdminNext ==
    \/ \E item \in RepoItems : SyncStart(item)
    \/ \E repos \in BackfillRequests : BackfillStart(repos)
    \/ \E repo_id \in {1, 2} : AdminMeta(repo_id)
    \/ \E files \in FileLists : AdminFiles(files)
    \/ AdminEnqueue
    \/ AdminFails(ERR)

(***************************************************************************)
(* POST /admin/ingest-url (app/routers/admin.py), inside the unit of work  *)
(* of get_db_session and with no task in flight.  text is what             *)
(* extract_text_from_html returns for the fetched page.  admin.hash is     *)
(* hash() of this process, admin.log a history of the requests that got    *)
(* past the fetch: their arguments, the store before and after, the answer.*)
(***************************************************************************)
\* the number of ingest requests explored
MaxIngestCalls == 2

IngestURLResponse(status, chunks_created) ==
    [status |-> status, chunks_created |-> chunks_created]

\* f"{request.repo_owner}/{request.repo_name}"
RepoKey(owner, name) == owner \o <<"/">> \o name

RepoKeys == {RepoKey(O_o, N_r), RepoKey(O_o, N_s)}

\* abs(hash(key)) % (2**31): str hashes are salted per process, so the value
\* of a key is fixed within a process and arbitrary across processes
SyntheticIds == {1, 2, 3}
Hashes == [RepoKeys -> SyntheticIds]

RECURSIVE JoinLines(_, _)
JoinLines(ls, i) ==
    IF i > Len(ls) THEN <<>>
    ELSE ls[i] \o (IF i < Len(ls) THEN <<"\n">> ELSE <<>>) \o JoinLines(ls, i + 1)

\* content_hash[:40]: a string the text determines
Prefix40(digest) == <<"h", ":">> \o JoinLines(digest.digest_of.lines, 1)

IngestAdmin(h) ==
    [pc |-> "idle", received |-> 0, kind |-> "ingest", hash |-> h, log |-> <<>>,
     response |-> AdminResponse(0, NoBody)]

\* ForeignKey("repos.id") of kb_files.repo_id and kb_chunks.repo_id
ReferencesRepo(repos, repo_id) == \E r \in repos : r.id = repo_id

\* the handler from get_or_create_repo to the commit or rollback of the unit;
\* chunks is chunk_file(text, path)
Ingested(pre, seqs, synthetic_id, owner, name, path, text, chunks) ==
    LET r            == LookupRepo(pre.repos, synthetic_id, owner, name)
        repos1       == IF r = NoRepo
                        THEN pre.repos \cup {RepoRow(synthetic_id, owner, name)}
                        ELSE pre.repos
        content_hash == sha256(text)
        commit_sha   == Prefix40(content_hash)
        rows         == {f \in pre.files : f.repo_id = synthetic_id /\ f.path = path}
        existing     == IF rows = {} THEN NoRow ELSE CHOOSE f \in rows : TRUE
        kb_file      == IF existing # NoRow
                        THEN [existing EXCEPT !.sha256 = content_hash,
                                              !.commit_sha = commit_sha]
                        ELSE FileRow(seqs.file, synthetic_id, path, commit_sha,
                                     content_hash)
        seqs1        == IF existing # NoRow THEN seqs
                        ELSE [seqs EXCEPT !.file = @ + 1]
        rows2        == {ChunkRow(seqs.chunk + k - 1, synthetic_id, kb_file.id, path,
                                  commit_sha, chunks[k]) : k \in 1..Len(chunks)}
    IN  IF existing # NoRow /\ existing.sha256 = content_hash
        THEN [db |-> [pre EXCEPT !.repos = repos1], seq |-> seqs, http |-> 200,
              body |-> IngestURLResponse("unchanged", 0)]
        ELSE IF ~ReferencesRepo(repos1, synthetic_id)
        THEN [db |-> pre, seq |-> seqs1, http |-> 500, body |-> NoBody]
        ELSE [db |-> [repos  |-> repos1,
                      files  |-> (pre.files \ {existing}) \cup {kb_file},
                      chunks |-> {c \in pre.chunks : c.file_id # kb_file.id}
                                    \cup rows2],
              seq |-> [seqs1 EXCEPT !.chunk = @ + Len(chunks)], http |-> 200,
              body |-> IngestURLResponse("ingested", Len(chunks))]

\* the unit of work ends and the response is sent
IngestAnswered(e, seqs) ==
    /\ db' = e.post
    /\ seq' = seqs
    /\ admin' = [admin EXCEPT !.received = @ + 1,
                              !.response = AdminResponse(e.http, e.body),
                              !.log = Append(@, e)]

IngestEntry(synthetic_id, owner, name, path, text, out) ==
    [synthetic_id |-> synthetic_id, owner |-> owner, name |-> name, path |-> path,
     text |-> text, pre |-> db, post |-> out.db, http |-> out.http,
     body |-> out.body, seq |-> out.seq]

IngestUrl(owner, name, path, text) ==
    /\ admin.received < MaxIngestCalls
    /\ \A w \in Workers : task[w].pc = "idle"
    /\ \E e \in {IngestEntry(admin.hash[RepoKey(owner, name)], owner, name, path, text,
                      Ingested(db, seq, admin.hash[RepoKey(owner, name)], owner, name,
                               path, text, chunk_file(text, path)))} :
          IngestAnswered(e, e.seq)
    /\ UNCHANGED <<task, tx, delivered, last, prev>>
    /\ UNCHANGED <<chatVars, hookVars, chunkVars>>

\* client.get raised, or raise_for_status on a non-2xx answer
IngestFetchFails ==
    /\ admin.received < MaxIngestCalls
    /\ admin' = [admin EXCEPT !.received = @ + 1,
                              !.response = AdminResponse(500, NoBody)]
    /\ UNCHANGED <<storeVars, chatVars, hookVars, chunkVars>>

IngestNext ==
    \/ \E name \in {N_r, N_s}, path \in {P_md, P_py}, text \in {T_doc, T_two} :
          IngestUrl(O_o, name, path, text)
    \/ IngestFetchFails

(***************************************************************************)
(* Specifications                                                          *)
(***************************************************************************)

Init == StoreInit /\ ChatInit /\ HookInit /\ AdminInit /\ ChunkInit

\* the application over a store that is empty or holds the two indexed files
IndexedInit == IndexedStoreInit /\ ChatInit /\ HookInit /\ AdminInit /\ ChunkInit

SpecStore     == Init /\ [][StoreNext]_vars
SpecStoreConc == Init /\ [][StoreConcNext]_vars
SpecIndexConc == Init /\ [][IndexConcNext]_vars
SpecChat      == IndexedInit /\ [][ChatNext]_vars
SpecRetrieve  == IndexedInit /\ [][RetrieveNext]_vars
SpecWebhook   == Init /\ [][HookNext]_vars
SpecAdmin     == Init /\ [][AdminNext]_vars
SpecChunk     == Init /\ [][ChunkNext]_vars

\* ingest-url in a process with any hash salt, over a store that is empty or
\* holds the two indexed files
IngestInit ==
    /\ IndexedStoreInit /\ ChatInit /\ HookInit /\ ChunkInit
    /\ admin \in {IngestAdmin(h) : h \in Hashes}

SpecIngest    == IngestInit /\ [][IngestNext]_vars

(***************************************************************************)
(* Properties of index_file and delete_file, tasks delivered one at a time *)
(* (SpecStore).  last and prev are the two tasks that completed last;      *)
(* last.pre is the committed store when last was delivered.                *)
(***************************************************************************)

Returned(t, kind) == t.kind = kind /\ t.status = 200 /\ t.raised = "none"

SameIndexArgs(a, b) ==
    /\ a.repo_id = b.repo_id /\ a.owner = b.owner /\ a.name = b.name
    /\ a.path = b.path /\ a.commit_sha = b.commit_sha

\* the id of the Repo row get_or_create_repo returns for the task in store d
Authoritative(d, t) ==
    LET r == LookupRepo(d.repos, t.repo_id, t.owner, t.name)
    IN  IF r = NoRepo THEN t.repo_id ELSE r.id

\* the KBFile rows of the task's (authoritative repo id, path) in store d
Found(d, t) ==
    {f \in d.files : f.repo_id = Authoritative(d, t) /\ f.path = t.path}

\* index_file got as far as looking the file up: nothing was skipped
LookedUp(t) ==
    /\ Returned(t, "index")
    /\ t.fetched
    /\ ~is_denied(t.path, NoSize)
    /\ ~is_denied(t.path, ByteLen(t.content))

\* the rows of a store, commit_sha left out
IgnoringCommitSha(d) ==
    [repos  |-> d.repos,
     files  |-> {[f EXCEPT !.commit_sha = <<>>] : f \in d.files},
     chunks |-> {[c EXCEPT !.commit_sha = <<>>] : c \in d.chunks}]

\* C2 as the spec states it: every KBChunk row has 1 <= start_line <= end_line
\* and a KBFile row with the same file id, path and commit_sha.
C2_ChunkMatchesFile ==
    \A c \in db.chunks :
        /\ 1 <= c.start_line /\ c.start_line <= c.end_line
        /\ \E f \in db.files :
              f.id = c.file_id /\ f.path = c.path /\ f.commit_sha = c.commit_sha

\* C4 as the spec states it: a second index_file call with the same arguments
\* and the same fetched content returns unchanged and leaves the rows identical,
\* commit_sha ignored.
C4_SecondCallUnchanged ==
    (/\ Returned(prev, "index") /\ Returned(last, "index")
     /\ SameIndexArgs(prev, last)
     /\ prev.fetched /\ last.fetched /\ prev.content = last.content)
    => (last.outcome = "unchanged"
        /\ IgnoringCommitSha(db) = IgnoringCommitSha(last.pre))

\* C4 amended: a second index_file call with the same arguments and the same
\* fetch result returns unchanged if the first returned indexed or unchanged and
\* otherwise repeats the first call's skipped outcome; in every case the rows
\* are left identical, commit_sha ignored.
C4_SecondCallRepeats ==
    (/\ Returned(prev, "index") /\ Returned(last, "index")
     /\ SameIndexArgs(prev, last)
     /\ prev.fetched = last.fetched /\ prev.content = last.content)
    => (/\ last.outcome = IF prev.outcome \in {"indexed", "unchanged"}
                          THEN "unchanged" ELSE prev.outcome
        /\ IgnoringCommitSha(db) = IgnoringCommitSha(last.pre))

C4_Witness ==
    /\ Returned(prev, "index") /\ Returned(last, "index")
    /\ SameIndexArgs(prev, last)
    /\ prev.fetched /\ last.fetched /\ prev.content = last.content
    /\ prev.outcome = "indexed"
    /\ last.outcome = "unchanged"
    /\ db.chunks # {}

\* C6: when index_file finds a KBFile row of (authoritative repo id, path) whose
\* sha256 differs from the hash of the fetched content, afterwards the chunk rows
\* the file had are gone, the same row carries the new sha256 and commit_sha, the
\* file's chunk rows are exactly the tuples of chunk_file(content, path), and the
\* outcome is indexed with that many chunks.
C6_ChangedFileReindexed ==
    LookedUp(last) =>
        \A f0 \in Found(last.pre, last) :
            f0.sha256 # sha256(last.content) =>
                LET old  == {c.id : c \in {x \in last.pre.chunks : x.file_id = f0.id}}
                    now  == {c \in db.chunks : c.file_id = f0.id}
                    want == chunk_file(last.content, last.path)
                IN  /\ \A c \in now : c.id \notin old
                    /\ FileRow(f0.id, f0.repo_id, f0.path, last.commit_sha,
                               sha256(last.content)) \in db.files
                    /\ {<<c.start_line, c.end_line, c.content>> : c \in now}
                          = Range(want)
                    /\ Cardinality(now) = Len(want)
                    /\ \A c \in now : /\ c.repo_id = f0.repo_id
                                      /\ c.path = f0.path
                                      /\ c.commit_sha = last.commit_sha
                    /\ last.outcome = "indexed"
                    /\ Len(last.chunks) = Len(want)

C6_Witness ==
    /\ LookedUp(last)
    /\ last.outcome = "indexed"
    /\ \E f0 \in Found(last.pre, last) :
          /\ f0.sha256 # sha256(last.content)
          /\ f0.commit_sha # last.commit_sha
          /\ \E c \in last.pre.chunks : c.file_id = f0.id
          /\ \E c \in db.chunks : c.file_id = f0.id

\* C7: when index_file finds a KBFile row of (authoritative repo id, path) whose
\* sha256 equals the hash of the fetched content, it returns unchanged, sets
\* only that row's commit_sha, does not call the chunker, and leaves every other
\* row and attribute as it was.
C7_UnchangedFileTouchesCommitSha ==
    LookedUp(last) =>
        \A f0 \in Found(last.pre, last) :
            f0.sha256 = sha256(last.content) =>
                /\ last.outcome = "unchanged"
                /\ ~last.called_chunker
                /\ db.files = {IF f = f0 THEN [f EXCEPT !.commit_sha = last.commit_sha]
                               ELSE f : f \in last.pre.files}
                /\ db.chunks = last.pre.chunks
                /\ db.repos = last.pre.repos

C7_Witness ==
    /\ LookedUp(last)
    /\ last.outcome = "unchanged"
    /\ \E f0 \in Found(last.pre, last) :
          /\ f0.sha256 = sha256(last.content)
          /\ f0.commit_sha # last.commit_sha
          /\ \E c \in db.chunks : c.file_id = f0.id
    /\ Cardinality(db.files) > 1

\* C8: delete_file(repo_id, path) returns not_found and changes nothing if no
\* KBFile row has that (repo_id, path); otherwise it returns deleted, that row
\* and the chunk rows of its id are gone and every other row is as it was.  A
\* second identical delete_file returns not_found.
C8_DeleteFile ==
    /\ Returned(last, "delete") =>
          LET gone == {f \in last.pre.files :
                          f.repo_id = last.repo_id /\ f.path = last.path}
          IN  IF gone = {}
              THEN last.outcome = "not_found" /\ db = last.pre
              ELSE /\ last.outcome = "deleted"
                   /\ db.files = last.pre.files \ gone
                   /\ db.chunks = {c \in last.pre.chunks :
                                      \A f \in gone : c.file_id # f.id}
                   /\ db.repos = last.pre.repos
    /\ (/\ Returned(prev, "delete") /\ Returned(last, "delete")
        /\ prev.repo_id = last.repo_id /\ prev.path = last.path)
       => last.outcome = "not_found"

C8_Witness ==
    /\ Returned(prev, "delete") /\ Returned(last, "delete")
    /\ prev.repo_id = last.repo_id /\ prev.path = last.path
    /\ prev.outcome = "deleted"
    /\ last.outcome = "not_found"

\* C9 as the spec states it: after an index_file job indexed a path, a
\* delete_file job with the same repo_id and path returns deleted and leaves no
\* KBFile and no KBChunk row of that path in the repository the path was
\* indexed under.
C9_DeleteAfterIndex ==
    (/\ Returned(prev, "index") /\ prev.outcome \in {"indexed", "unchanged"}
     /\ Returned(last, "delete")
     /\ last.repo_id = prev.repo_id /\ last.owner = prev.owner
     /\ last.name = prev.name /\ last.path = prev.path)
    => /\ last.outcome = "deleted"
       /\ ~\E f \in db.files :
              f.repo_id = prev.actual_repo_id /\ f.path = last.path
       /\ ~\E c \in db.chunks :
              c.repo_id = prev.actual_repo_id /\ c.path = last.path

(***************************************************************************)
(* Properties of overlapping tasks (SpecIndexConc, SpecStoreConc).         *)
(***************************************************************************)

Quiescent == \A w \in Workers : task[w].pc = "idle"

\* C3 as the spec states it: once every overlapping index_file invocation has
\* finished, there is at most one KBFile row per (repo_id, path) and the chunk
\* rows of each file are exactly the chunks of the content whose sha256 the file
\* row records, none duplicated, none left over.
C3_OneContentPerFile ==
    Quiescent =>
        /\ \A f, g \in db.files :
              (f.repo_id = g.repo_id /\ f.path = g.path) => f = g
        /\ \A f \in db.files :
              LET now  == {c \in db.chunks : c.file_id = f.id}
                  want == chunk_file(f.sha256.digest_of, f.path)
              IN  /\ {<<c.start_line, c.end_line, c.content>> : c \in now}
                        = Range(want)
                  /\ Cardinality(now) = Len(want)

\* C5: when a task's unit of work ends because index_file or delete_file raised,
\* the endpoint answers 500 and the committed rows are what they were before
\* the step (so is it when the commit itself fails); when the handler returned
\* and the commit succeeded, the answer is 200 and the unit's writes are
\* committed: its inserted Repo and KBFile rows and its chunk rows are there, the
\* chunk rows it deleted are not.
C5_RollbackOrCommit ==
    [][\A w \in Workers :
          (task[w].pc # "idle" /\ task'[w].pc = "idle") =>
              /\ last'.raised = "handler" => (last'.status = 500 /\ db' = db)
              /\ last'.raised = "commit" => db' = db
              /\ last'.raised = "none" =>
                    /\ last'.status = 200
                    /\ tx[w].repos \subseteq db'.repos
                    /\ \A f \in tx[w].files : \E g \in db'.files : g.id = f.id
                    /\ \A c \in db'.chunks : c.id \notin tx[w].delChunks
                    /\ last'.outcome = "indexed" =>
                          Cardinality({c \in db'.chunks \ db.chunks :
                                          c.file_id = task[w].kb_file_id})
                             = Len(task[w].chunks)]_storeVars

C5_Witness ==
    /\ last.kind = "index"
    /\ last.raised = "handler"
    /\ last.status = 500
    /\ last.dirty
    /\ db = EmptyDb

(***************************************************************************)
(* Properties of POST /chat (SpecChat) and of the webhook (SpecWebhook).   *)
(***************************************************************************)

\* C1: in every branch of the chat handler, each citation of a response has a
\* source equal to "{owner}/{repo}/{path}@{sha}:{start}-{end}" of some chunk the
\* request's retrieval returned.
C1_CitationsAreRetrieved ==
    \A i \in 1..Len(chat.response.citations) :
        \E j \in 1..Len(chat.chunks) :
            LET c == chat.chunks[j]
            IN  chat.response.citations[i].source =
                    c.repo_owner \o <<"/">> \o c.repo_name \o <<"/">> \o c.path
                      \o <<"@">> \o c.commit_sha \o <<":">>
                      \o IntToStr(c.start_line) \o <<"-">> \o IntToStr(c.end_line)

C1_Witness ==
    /\ chat.pc = "done"
    /\ chat.llm.result = "ok"
    /\ Len(chat.response.citations) = 1
    /\ Len(chat.llm.citations) = 2
    /\ chat.response.citations[1].source = Source(K_2)

\* C10: a push event with deleted = true puts no job on the queue and is
\* answered with tasks_enqueued = 0, whatever its commits and after carry.
C10_DeletedPushEnqueuesNothing ==
    (hook.pc # "idle" /\ hook.body # Malformed /\ hook.body.deleted)
    => /\ queue = hook.queue0
       /\ hook.pc = "done"
       /\ hook.response.tasks_enqueued \in {0, NoCount}
       /\ hook.payload # Malformed => hook.response = HookResponse(202, 0)

C10_Witness ==
    /\ hook.pc = "done"
    /\ hook.payload # Malformed
    /\ hook.payload.deleted
    /\ Len(PushJobs(hook.payload, 1)) > 2
    /\ hook.response.status = 202
    /\ Len(queue) > 0

Occurrences(q, x) == Cardinality({i \in 1..Len(q) : q[i] = x})

\* the jobs on the queue that the request in progress put there
Placed == SubSeq(queue, Len(hook.queue0) + 1, Len(queue))

\* how often the commits list a path for indexing (added, modified) or for
\* deletion (removed)
RECURSIVE Listings(_, _, _)
Listings(commits, kind, path) ==
    IF commits = <<>> THEN 0
    ELSE (IF kind = "index"
          THEN Occurrences(Head(commits).added, path)
                 + Occurrences(Head(commits).modified, path)
          ELSE Occurrences(Head(commits).removed, path))
           + Listings(Tail(commits), kind, path)

\* C11: an accepted push with deleted = false has put on the queue, for every
\* commit, one index-file job per listing of a path in added and in modified,
\* carrying the event's after as commit_sha and the event's repo id, and one
\* delete-file job per listing of a path in removed, and nothing else; the
\* tasks_enqueued it reports is the number of jobs it put on the queue.
C11_PushEnqueuesJobs ==
    (hook.pc = "done" /\ hook.response.status = 202 /\ ~hook.payload.deleted)
    => LET push   == hook.payload
           owner  == OwnerOf(push.repository.owner)
           Index(path)  == IndexFilePayload(owner, push.repository.name,
                                            push.repository.id, path, push.after)
           Delete(path) == DeleteFilePayload(owner, push.repository.name,
                                             push.repository.id, path)
           paths  == UNION {Range(c.added) \cup Range(c.modified) \cup Range(c.removed) :
                               c \in Range(push.commits)}
       IN  /\ SubSeq(queue, 1, Len(hook.queue0)) = hook.queue0
           /\ \A path \in paths :
                /\ Occurrences(Placed, Index(path))
                     = Listings(push.commits, "index", path)
                /\ Occurrences(Placed, Delete(path))
                     = Listings(push.commits, "delete", path)
           /\ \A i \in 1..Len(Placed) :
                \E path \in paths : Placed[i] \in {Index(path), Delete(path)}
           /\ hook.response.tasks_enqueued = Len(Placed)

C11_Witness ==
    /\ hook.pc = "done"
    /\ hook.response.status = 202
    /\ ~hook.payload.deleted
    /\ Len(hook.payload.commits) = 2
    /\ hook.response.tasks_enqueued = 4
    /\ Len(hook.queue0) > 0
    /\ \E i \in 1..Len(Placed) : Placed[i].url = "/tasks/delete-file"

\* C12: a request whose X-Hub-Signature-256 header differs from "sha256=" +
\* HMAC-SHA256 of the raw body under the configured secret is answered 401
\* and leaves the queue as it was; only a request with the matching header
\* puts a job on the queue.
C12_MismatchIs401 ==
    LET expected == SignatureHeader("sha256=", hmac_sha256(SECRET, hook.body))
    IN  /\ (hook.pc # "idle" /\ hook.header # NoHeader /\ hook.header # expected)
           => /\ hook.pc = "done"
              /\ hook.response.status = 401
              /\ queue = hook.queue0
        /\ queue # hook.queue0 => hook.header = expected

\* C13: when the LLM call succeeded and parsed, the citations of the response
\* are the LLM's claimed citations whose source is the source of a retrieved
\* chunk, in the LLM's order and with their relevance text; also when the
\* LLM set needs_clarification.
C13_CitationsAreVerifiedClaims ==
    (chat.pc = "done" /\ chat.llm.result = "ok")
    => LET valid == {Source(chat.chunks[j]) : j \in 1..Len(chat.chunks)}
           Kept(cit) == cit.source \in valid
       IN  chat.response.citations = SelectSeq(chat.llm.citations, Kept)

C13_Witness ==
    /\ chat.pc = "done"
    /\ chat.llm.result = "ok"
    /\ chat.llm.needs_clarification
    /\ Len(chat.llm.citations) = 2
    /\ Len(chat.response.citations) = 1
    /\ chat.response.citations[1] = chat.llm.citations[2]

\* the two answers C14 speaks of; the tests of the router fix these fragments
NoRepositoriesAnswer == "No repositories have been indexed ... /admin/sync-repo"
NoMatchAnswer == "couldn't find relevant content ... rephrasing"

\* C14: when retrieval returned no chunks, the response is the fixed
\* no-repositories answer if the store holds no chunk at all and the fixed
\* rephrase answer if it holds one, with no citations and confidence low,
\* and the LLM is not called.
C14_EmptyRetrievalAnswers ==
    (chat.pc = "done" /\ ret.pc = "returned" /\ Len(ret.results) = 0)
    => /\ chat.response =
            ChatResponse(200,
                         IF db.chunks = {} THEN NoRepositoriesAnswer ELSE NoMatchAnswer,
                         <<>>, "low")
       /\ chat.llm = NoLLM

\* C15: when retrieval was non-empty and the LLM call raised or its output
\* did not parse, the response is the fixed error answer with no citations
\* and confidence low, whatever confidence retrieval computed, and the
\* request is answered 200.
C15_LLMFailureAnswer ==
    (chat.pc = "done" /\ chat.llm.result \in {"raised", "unparsable"})
    => /\ Len(chat.chunks) > 0
       /\ chat.response =
            ChatResponse(200,
                "I'm sorry, I encountered an error processing your question. Please try again.",
                <<>>, "low")

C15_Witness ==
    /\ chat.pc = "done"
    /\ chat.llm.result = "unparsable"
    /\ chat.confidence = "high"
    /\ chat.response.confidence = "low"

\* C16: the confidence of an answered /chat request is the confidence computed
\* from the retrieved chunks when retrieval was non-empty, the LLM succeeded,
\* needs_clarification is false and at least one citation was verified; in
\* every other case it is low.
C16_ResponseConfidence ==
    (chat.pc = "done" /\ chat.response.status = 200)
    => chat.response.confidence =
         IF /\ Len(chat.chunks) > 0
            /\ chat.llm.result = "ok"
            /\ ~chat.llm.needs_clarification
            /\ Len(chat.response.citations) > 0
         THEN compute_confidence(chat.chunks)
         ELSE "low"

C16_Witness ==
    /\ chat.pc = "done"
    /\ chat.llm.result = "ok"
    /\ ~chat.llm.needs_clarification
    /\ Len(chat.response.citations) = 1
    /\ chat.response.confidence = "high"

\* what C17 says of a list of chunks
EnoughChunks(chunks) == Len(chunks) >= 3
HighScore(chunks) == Len(chunks) > 0 /\ chunks[1].score >= 10
Graded(chunks) ==
    IF EnoughChunks(chunks) /\ HighScore(chunks) THEN "high"
    ELSE IF EnoughChunks(chunks) # HighScore(chunks) THEN "medium"
    ELSE "low"

\* C17: compute_confidence is high exactly when there are at least 3 chunks
\* and the first chunk's score is at least 0.1, medium exactly when one of
\* the two holds, and low otherwise, the empty list included; so it depends
\* on the number of chunks and the first score only.
C17_ConfidenceGrades ==
    /\ \A chunks \in Retrievals : compute_confidence(chunks) = Graded(chunks)
    /\ chat.pc \in {"generate", "done"} /\ Len(chat.chunks) > 0
         => chat.confidence = Graded(chat.chunks)

C17_Witness ==
    /\ chat.pc = "generate"
    /\ Len(chat.chunks) = 3
    /\ chat.chunks[1].score < HIGH_SCORE_THRESHOLD
    /\ chat.confidence = "medium"

\* retrieval vocabulary: a search was invoked; the list stages 1 and 2 ended
\* with, and whether it is complete
Invoked(search) == \E i \in 1..Len(ret.calls) : ret.calls[i] = search
Stage12 == IF Invoked("search_fts_or") THEN ret.fts_or ELSE ret.fts
Stage12Done ==
    \/ "search_fts" \in ret.returned /\ Len(ret.fts) > 0
    \/ "search_fts_or" \in ret.returned

\* C18: retrieve_chunks invokes search_fts_or exactly when search_fts returned
\* no row, and never before search_fts has returned.
C18_OrIffFtsEmpty ==
    /\ Invoked("search_fts_or")
         <=> ("search_fts" \in ret.returned /\ Len(ret.fts) = 0)
    /\ Invoked("search_fts_or")
         => /\ ret.calls[1] = "search_fts"
            /\ ret.calls[2] = "search_fts_or"
            /\ Occurrences(ret.calls, "search_fts_or") = 1
    /\ "search_fts_or" \in ret.returned => Invoked("search_fts_or")

C18_Witness ==
    /\ ret.pc = "returned"
    /\ ret.calls = <<"search_fts", "search_fts_or">>
    /\ Len(ret.fts_or) = ret.min_fts_results

\* C19: retrieve_chunks invokes search_trigram exactly when the list left by
\* stages 1 and 2 is shorter than min_fts_results; when it is not, the
\* result is that list unchanged.
C19_TrigramIffBelowMinimum ==
    /\ Invoked("search_trigram")
         <=> (Stage12Done /\ Len(Stage12) < ret.min_fts_results)
    /\ (ret.pc = "returned" /\ ~Invoked("search_trigram"))
         => ret.results = Stage12

C19_Witness ==
    /\ ret.pc = "returned"
    /\ ret.calls = <<"search_fts">>
    /\ Len(ret.fts) = ret.min_fts_results
    /\ ret.results = ret.fts

\* C20: the list retrieve_chunks returns has at most max_chunks entries and
\* no chunk id twice, and is the stage-1/2 list in its order followed by the
\* trigram rows in their order without the rows whose id the list already
\* holds, cut at max_chunks.
C20_MergedResult ==
    ret.pc = "returned"
    => LET ids == {Stage12[i].id : i \in 1..Len(Stage12)}
           New(row) == row.id \notin ids
           merged == Stage12 \o SelectSeq(ret.trigram, New)
       IN  /\ Len(ret.results) <= ret.max_chunks
           /\ \A i, j \in 1..Len(ret.results) :
                ret.results[i].id = ret.results[j].id => i = j
           /\ ret.results = SubSeq(merged, 1, Min(Len(merged), ret.max_chunks))

C20_Witness ==
    /\ ret.pc = "returned"
    /\ Len(ret.fts) = 1
    /\ Len(ret.trigram) = 2
    /\ ret.trigram[1].id = ret.fts[1].id
    /\ Len(ret.results) = ret.max_chunks
    /\ ret.results[2] = ret.trigram[2]

OnlyRepo(owner, name) == \A r \in db.repos : r.owner = owner /\ r.name = name

\* C27: while the index_file calls that reached the store all named the same
\* (owner, name), under whatever repo_id, there is at most one Repo row; a
\* call that finds the row leaves it as it is and works under its id; and
\* every KBFile and KBChunk row carries that row's id as repo_id.
C27_OneRepoRowPerName ==
    \A i \in Idents :
        OnlyRepo(i.owner, i.name)
        => /\ Cardinality(db.repos) <= 1
           /\ \A r \in db.repos :
                /\ \A f \in db.files : f.repo_id = r.id
                /\ \A c \in db.chunks : c.repo_id = r.id
           /\ (Returned(last, "index") /\ last.pre.repos # {})
                => /\ db.repos = last.pre.repos
                   /\ \A r \in db.repos : last.actual_repo_id = r.id

C27_Witness ==
    /\ Returned(prev, "index") /\ Returned(last, "index")
    /\ prev.owner = last.owner /\ prev.name = last.name
    /\ prev.repo_id = 1 /\ last.repo_id = 2
    /\ last.outcome = "indexed"
    /\ last.actual_repo_id = 1
    /\ db.repos = {RepoRow(1, last.owner, last.name)}
    /\ \E c \in db.chunks : c.repo_id = 1

\* C28 as the spec states it, for the order delete-file first: index-file
\* first and delete-file second leaves no KBFile row of the path (C8), so if
\* the store after both jobs is the same in either order, delete-file first
\* and index-file second leaves none either.
C28_OrderDoesNotMatter ==
    (/\ Returned(prev, "delete") /\ Returned(last, "index")
     /\ last.outcome \in {"indexed", "unchanged"}
     /\ prev.repo_id = last.repo_id /\ prev.owner = last.owner
     /\ prev.name = last.name /\ prev.path = last.path)
    => ~\E f \in db.files : f.repo_id = last.repo_id /\ f.path = last.path


(***************************************************************************)
(* /admin/sync-repo and /admin/backfill                                    *)
(***************************************************************************)
\* the jobs the admin request in admin has placed on the queue
AdminJobs == SubSeq(queue, Len(admin.queue0) + 1, Len(queue))

AdminAnswered(kind) == admin.kind = kind /\ admin.pc = "done"

\* the listed paths of a repository that the denylist lets through
Surviving(files) == SelectSeq(files, LAMBDA p : ~is_denied(p, NoSize))

\* the job of one listed path
JobOf(item, repo_id, path) ==
    IndexFilePayload(item.owner, item.repo, repo_id, path, item.ref)

\* the jobs of admin.repos[k] that were on the queue when its processing ended
PlacedOf(k) ==
    LET e == admin.log[k]
    IN  [i \in 1..e.placed |-> JobOf(admin.repos[k], e.repo_id, Surviving(e.files)[i])]

RECURSIVE PlacedUpTo(_)
PlacedUpTo(k) == IF k = 0 THEN <<>> ELSE PlacedUpTo(k - 1) \o PlacedOf(k)

RECURSIVE SumEnqueued(_, _)
SumEnqueued(results, k) ==
    IF k = 0 THEN 0 ELSE SumEnqueued(results, k - 1) + results[k].tasks_enqueued

\* C21: a /admin/sync-repo that answers 200 reports files_found = the length
\* of the listing = tasks_enqueued + files_skipped_denylist, has placed
\* exactly one index-file job for each listed path that is_denied lets
\* through and none for a denied path, and reports in tasks_enqueued the
\* number of jobs it placed on the queue.
C21_SyncCountsAndJobs ==
    (AdminAnswered("sync") /\ admin.response.http = 200) =>
        LET b     == admin.response.body
            e     == admin.log[1]
            item  == admin.repos[1]
        IN  /\ b.files_found = Len(e.files)
            /\ b.files_found = b.tasks_enqueued + b.files_skipped_denylist
            /\ \A i \in 1..Len(e.files) :
                  Occurrences(AdminJobs, JobOf(item, e.repo_id, e.files[i]))
                    = IF is_denied(e.files[i], NoSize) THEN 0 ELSE 1
            /\ \A j \in 1..Len(AdminJobs) :
                  /\ AdminJobs[j].url = "/tasks/index-file"
                  /\ \E i \in 1..Len(e.files) :
                        AdminJobs[j] = JobOf(item, e.repo_id, e.files[i])
            /\ b.tasks_enqueued = Len(AdminJobs)

\* three files listed, one of them denied: two jobs, one skip
C21_Witness ==
    /\ AdminAnswered("sync")
    /\ admin.response.http = 200
    /\ admin.response.body.files_found = 3
    /\ admin.response.body.tasks_enqueued = 2
    /\ admin.response.body.files_skipped_denylist = 1
    /\ Len(AdminJobs) = 2

\* C22: a /admin/backfill answers 200 with exactly one result per requested
\* repo, in request order; a repo whose processing raised has status error
\* and the exception's text, a repo whose processing did not raise has
\* status accepted and all its surviving paths enqueued, and the queue holds
\* the jobs of every repo of the list, the ones after a failed repo included.
C22_BackfillIsolatesErrors ==
    AdminAnswered("backfill") =>
        LET b == admin.response.body
        IN  /\ admin.response.http = 200
            /\ Len(b.results) = Len(admin.repos)
            /\ Len(admin.log) = Len(admin.repos)
            /\ \A k \in 1..Len(admin.repos) :
                  /\ b.results[k].owner = admin.repos[k].owner
                  /\ b.results[k].repo = admin.repos[k].repo
                  /\ admin.log[k].raised # None =>
                        /\ b.results[k].status = "error"
                        /\ b.results[k].error = admin.log[k].raised
                  /\ admin.log[k].raised = None =>
                        /\ b.results[k].status = "accepted"
                        /\ b.results[k].error = None
                        /\ admin.log[k].placed = Len(Surviving(admin.log[k].files))
            /\ AdminJobs = PlacedUpTo(Len(admin.repos))

\* a repo fails, a later repo of the same request has its jobs on the queue
C22_Witness ==
    /\ AdminAnswered("backfill")
    /\ \E k, j \in 1..Len(admin.repos) :
          /\ k < j
          /\ admin.response.body.results[k].status = "error"
          /\ admin.response.body.results[j].status = "accepted"
          /\ admin.response.body.results[j].tasks_enqueued > 0
          /\ admin.log[j].placed > 0

\* C30 (as claimed): the total_tasks_enqueued of a /admin/backfill response
\* is the number of jobs the request placed on the queue and the sum of
\* tasks_enqueued over its results.  Violated by a repo whose enqueue
\* raises after some of its jobs were placed.
C30_TotalIsJobsPlaced ==
    AdminAnswered("backfill") =>
        LET b == admin.response.body
        IN  /\ b.total_tasks_enqueued = Len(AdminJobs)
            /\ b.total_tasks_enqueued = SumEnqueued(b.results, Len(b.results))


(***************************************************************************)
(* chunk_file                                                              *)
(***************************************************************************)
\* the content "": one line with no character
EmptyContent == Text(<< <<>> >>, 0)

ChunkedNonEmpty == chunked.called /\ ByteLen(chunked.content) > 0

ChunkedMarkdown == LowerStr(SplitExt(chunked.path)) \in {EXT_md, EXT_mdx}

\* each chunk is followed by the chunk starting on the next line, and the
\* last chunk ends on the last line
Adjacent(chunks, total) ==
    /\ \A i \in 1..(Len(chunks) - 1) : chunks[i][2] + 1 = chunks[i + 1][1]
    /\ Len(chunks) > 0 => chunks[Len(chunks)][2] = total

Tiles(chunks, total) ==
    /\ Len(chunks) > 0
    /\ chunks[1][1] = 1
    /\ Adjacent(chunks, total)

\* each chunk carries the lines it spans
CarriesItsLines(chunks, content) ==
    \A i \in 1..Len(chunks) :
        /\ 1 <= chunks[i][1]
        /\ chunks[i][1] <= chunks[i][2]
        /\ chunks[i][3] = Slice(content, chunks[i][1] - 1, chunks[i][2])

\* C23 (as claimed): for every non-empty content and every path the chunks
\* of chunk_file tile the file: the first starts at line 1, each is
\* followed by the next, the last ends at the last line.  Violated by a
\* markdown text whose lines before its first heading are whitespace-only.
C23_ChunksTileFile ==
    ChunkedNonEmpty => Tiles(chunked.chunks, NumLines(chunked.content))

\* C23 (amended): for every non-empty content, each chunk carries the
\* lines it spans; on a code path (known or unknown extension) the chunks
\* tile the file; on a markdown path each chunk is followed by the next and
\* the last ends at the last line, but the lines before the first chunk are
\* elided when they are whitespace-only, and whitespace-only content has no
\* chunk at all.
C23_ChunksTileFileButBlankHead ==
    ChunkedNonEmpty =>
        LET chunks == chunked.chunks
            total  == NumLines(chunked.content)
        IN  /\ CarriesItsLines(chunks, chunked.content)
            /\ ~ChunkedMarkdown => Tiles(chunks, total)
            /\ ChunkedMarkdown =>
                  /\ Adjacent(chunks, total)
                  /\ Len(chunks) = 0 <=> IsBlank(chunked.content)
                  /\ Len(chunks) > 0 =>
                        \/ chunks[1][1] = 1
                        \/ /\ chunks[1][1] > 1
                           /\ IsBlank(Slice(chunked.content, 0, chunks[1][1] - 1))
                           /\ IsHeading(chunked.content.lines[chunks[1][1]])

\* a markdown file whose blank first lines are elided: the first of its
\* chunks starts at the heading below them, the chunks after it follow on
C23_Witness ==
    /\ ChunkedNonEmpty
    /\ ChunkedMarkdown
    /\ Len(chunked.chunks) >= 2
    /\ chunked.chunks[1][1] > 1
    /\ Adjacent(chunked.chunks, NumLines(chunked.content))

\* C24: every chunk of the code chunker (boundary-based with merge and
\* split, or the fixed-size fallback) spans at most max_lines lines, for
\* min_lines <= max_lines; a file of exactly max_lines lines yields one chunk.
C24_CodeChunksAtMostMaxLines ==
    (chunked.called /\ ~ChunkedMarkdown /\ chunked.min_lines <= chunked.max_lines) =>
        /\ \A i \in 1..Len(chunked.chunks) :
              chunked.chunks[i][2] - chunked.chunks[i][1] + 1 <= chunked.max_lines
        /\ NumLines(chunked.content) = chunked.max_lines =>
              chunked.chunks = << <<1, chunked.max_lines, chunked.content>> >>

\* boundaries one line apart are merged up to min_lines and the merged
\* chunk is split again at max_lines
C24_Witness ==
    /\ chunked.called
    /\ ~ChunkedMarkdown
    /\ chunked.min_lines = 2
    /\ chunked.max_lines = 2
    /\ NumLines(chunked.content) = 5
    /\ Cardinality(BoundaryIndices(chunked.content,
                                   LowerStr(SplitExt(chunked.path)))) >= 2
    /\ Len(chunked.chunks) = 3

\* C25 (as claimed): chunk_file on empty content returns no chunk, whatever
\* the extension.  Violated on every path that chunk_code handles.
C25_EmptyContentNoChunks ==
    (chunked.called /\ chunked.content = EmptyContent) => chunked.chunks = <<>>


(***************************************************************************)
(* /admin/ingest-url                                                       *)
(***************************************************************************)
\* the id of the Repo row get_or_create_repo returns for request e
SelectedRepoId(e) ==
    LET r == LookupRepo(e.pre.repos, e.synthetic_id, e.owner, e.name)
    IN  IF r = NoRepo THEN e.synthetic_id ELSE r.id

SameIngest(e1, e2) ==
    /\ e1.owner = e2.owner
    /\ e1.name = e2.name
    /\ e1.path = e2.path
    /\ e1.text = e2.text

\* C29 (as claimed): every ingest-url leaves the text's KBFile row under the
\* id of the Repo row the dual lookup selected, writes KBFile and KBChunk
\* rows under that id only, each written repo_id referring to a Repo row,
\* and an ingest that repeats the request before it returns unchanged.
\* Violated when a Repo row of (repo_owner, repo_name) exists under another
\* id than the synthetic one.
C29_IngestWritesUnderSelectedRepo ==
    \A i \in 1..Len(admin.log) :
        LET e  == admin.log[i]
            id == SelectedRepoId(e)
        IN  /\ \E f \in e.post.files :
                  f.repo_id = id /\ f.path = e.path /\ f.sha256 = sha256(e.text)
            /\ \A f \in e.post.files \ e.pre.files :
                  f.repo_id = id /\ ReferencesRepo(e.post.repos, f.repo_id)
            /\ \A c \in e.post.chunks \ e.pre.chunks :
                  c.repo_id = id /\ ReferencesRepo(e.post.repos, c.repo_id)
            /\ (i > 1 /\ SameIngest(admin.log[i - 1], e)) =>
                  e.http = 200 /\ e.body.status = "unchanged"

====
